---------------------------- MODULE Spec2Model ----------------------------
(***************************************************************************)
(* A model of lunr.ts: the token set automaton (TokenSet, TokenSetBuilder), *)
(* the Builder, the LunrIndex query executor and index serialisation.       *)
(*                                                                          *)
(* Strings are sequences of one-character strings, so that the automaton    *)
(* code, which works character by character, can be modelled as written.    *)
(* Object references (TokenSet nodes) are integers into a heap; a node's    *)
(* reference is its id, because the code gives every node a fresh id.       *)
(***************************************************************************)
EXTENDS Integers, Sequences, FiniteSets, TLC

VARIABLES
    nextId,     \* TokenSet._nextId, the process-wide node id counter
    heap,       \* the TokenSet nodes allocated: id -> [final, edges, str]
    sets,       \* the token sets built so far, by the call that built them
    words,      \* what toArray returned for the sets it was called on
    builder,    \* the Builder: fields, pipelines, inverted index, counters
    index,      \* the LunrIndex returned by Builder.build
    loaded,     \* the LunrIndex returned by LunrIndex.load
    result,     \* the last query: its clauses and what it returned or threw
    protoAccessor,  \* whether the runtime's Object.prototype has the
                    \* "__proto__" accessor: browsers and Node have it,
                    \* Deno deletes it
    vector,     \* a Vector: its elements and what the last call on it did
    pipeline,   \* a Pipeline: its stack and what its last run was given,
                \* called and returned
    lexer,      \* a QueryLexer: its string, positions, escapes, lexemes and
                \* the state function run() calls next
    parser,     \* a QueryParser: its lexemes, position, current clause,
                \* query, next state function and the error it threw
    intersection,    \* a TokenSet.intersect under way: its operands, its
                    \* stack of frames and its output
    matches,    \* MatchData instances and the objects they and their callers hold
    queryObjects    \* a Query built with term(): the clause and options objects, by identity

vars == <<nextId, heap, sets, words, builder, index, loaded, result, protoAccessor, vector, pipeline, lexer, parser, intersection, matches, queryObjects>>

-----------------------------------------------------------------------------
(* Bounds of the model                                                      *)

MaxLen == 3          \* longest word of a letter vocabulary
MaxVocab == 2        \* most words in a letter vocabulary
MaxPat == 3          \* longest wildcard pattern
MaxEdit == 2         \* largest edit distance of a fuzzy set
MaxTerm == 2      \* length of the shorter operand of a fuzzy match
MaxStart == 2        \* largest value of TokenSet._nextId a behaviour starts at

-----------------------------------------------------------------------------
(* Strings                                                                  *)

\* The characters of the model in UTF-16 code unit order, the order in which
\* JavaScript compares strings and Array.prototype.sort sorts them.
CodeUnitOrder ==
    <<"*", "/", "0", "1", "2", "3", "4", "5", "6", "7", "8", "9",
      "_", "a", "b", "c", "o", "p", "r", "t">>

CharCode(c) == CHOOSE i \in 1..Len(CodeUnitOrder) : CodeUnitOrder[i] = c

DigitChars == <<"0", "1", "2", "3", "4", "5", "6", "7", "8", "9">>

IsDigit(c) == \E i \in 1..10 : DigitChars[i] = c

Min2(a, b) == IF a < b THEN a ELSE b

\* a < b for JavaScript strings
StrLess(a, b) ==
    \/ \E i \in 1..Min2(Len(a), Len(b)) :
          /\ \A j \in 1..(i - 1) : a[j] = b[j]
          /\ CharCode(a[i]) < CharCode(b[i])
    \/ /\ Len(a) < Len(b)
       /\ \A j \in 1..Len(a) : a[j] = b[j]

\* String(n) for a non-negative integer n
RECURSIVE NumToStr(_)
NumToStr(n) ==
    IF n < 10 THEN <<DigitChars[n + 1]>>
    ELSE NumToStr(n \div 10) \o <<DigitChars[(n % 10) + 1]>>

\* The strings of a set in ascending order (Array.prototype.sort)
RECURSIVE SortStrings(_)
SortStrings(S) ==
    IF S = {} THEN << >>
    ELSE LET m == CHOOSE x \in S : \A y \in S \ {x} : StrLess(x, y)
         IN <<m>> \o SortStrings(S \ {m})

\* The elements of a sequence as a set
Range(s) == {s[i] : i \in 1..Len(s)}

\* All strings over alphabet A of length lo..hi
StringsOver(A, lo, hi) == UNION {[1..n -> A] : n \in lo..hi}

-----------------------------------------------------------------------------
(* TokenSet nodes                                                           *)

\* A node's edges are a JavaScript object: a list of (label, target) own
\* properties in insertion order.
HasEdge(e, l) == \E i \in 1..Len(e) : e[i][1] = l

GetEdge(e, l) == e[CHOOSE i \in 1..Len(e) : e[i][1] = l][2]

PutEdge(e, l, n) ==
    IF HasEdge(e, l)
    THEN [i \in 1..Len(e) |-> IF e[i][1] = l THEN <<l, n>> ELSE e[i]]
    ELSE Append(e, <<l, n>>)

\* The characters of a set in ascending code unit order
RECURSIVE SortChars(_)
SortChars(S) ==
    IF S = {} THEN << >>
    ELSE LET m == CHOOSE x \in S : \A y \in S : CharCode(x) <= CharCode(y)
         IN <<m>> \o SortChars(S \ {m})

\* The labels of an edges object in insertion order
Labels(e) == [i \in 1..Len(e) |-> e[i][1]]

IsNotDigit(c) == ~IsDigit(c)

\* Object.keys(edges): integer-like keys first in ascending order, then the
\* other keys in insertion order.
ObjectKeys(e) ==
    SortChars({c \in Range(Labels(e)) : IsDigit(c)})
    \o SelectSeq(Labels(e), IsNotDigit)

\* new TokenSet(): a node with the next id, no edges, not final
NewNode == [final |-> FALSE, edges |-> << >>, str |-> << >>]

Alloc(h, id) == (id :> NewNode) @@ h

\* TokenSet.toString: the cached key if there is one, else the finality
\* bit followed by label and child id for every label in sorted order
RECURSIVE EdgeKeys(_, _)
EdgeKeys(e, labels) ==
    IF labels = << >> THEN << >>
    ELSE <<labels[1]>> \o NumToStr(GetEdge(e, labels[1]))
         \o EdgeKeys(e, Tail(labels))

toString(h, id) ==
    IF h[id].str # << >> THEN h[id].str
    ELSE <<IF h[id].final THEN "1" ELSE "0">>
         \o EdgeKeys(h[id].edges, SortChars(Range(Labels(h[id].edges))))

\* One iteration of the while loop of TokenSet.toArray on the popped frame
toArrayFrame(h, st, frame) ==
    [stack |-> st.stack \o
               [i \in 1..Len(ObjectKeys(h[frame.node].edges)) |->
                  [prefix |-> Append(frame.prefix, ObjectKeys(h[frame.node].edges)[i]),
                   node |-> GetEdge(h[frame.node].edges,
                                    ObjectKeys(h[frame.node].edges)[i])]],
     words |-> IF h[frame.node].final THEN Append(st.words, frame.prefix)
               ELSE st.words]

\* The while loop of TokenSet.toArray. The frames an iteration pushes are
\* popped before any frame below them, so the loop runs on them alone and
\* then goes on with the frames that were below.
RECURSIVE toArrayLoop(_, _)
toArrayLoop(h, st) ==
    IF st.stack = << >> THEN st
    ELSE toArrayLoop(h,
            [toArrayLoop(h, toArrayFrame(h, [st EXCEPT !.stack = << >>],
                                         st.stack[Len(st.stack)]))
                EXCEPT !.stack = SubSeq(st.stack, 1, Len(st.stack) - 1)])

\* TokenSet.toArray()
toArray(h, root) ==
    toArrayLoop(h, [stack |-> <<[prefix |-> << >>, node |-> root]>>,
                    words |-> << >>]).words

\* TokenSet.fromString: one node per character, a self loop for "*"
RECURSIVE fromStringLoop(_, _, _, _, _)
fromStringLoop(str, i, node, h, nid) ==
    IF i > Len(str) THEN [heap |-> h, nextId |-> nid]
    ELSE LET char == str[i]
             final == (i = Len(str))
         IN IF char = "*"
            THEN fromStringLoop(str, i + 1, node,
                    [h EXCEPT ![node] = [@ EXCEPT !.edges = PutEdge(@, char, node),
                                                  !.final = final]],
                    nid)
            ELSE fromStringLoop(str, i + 1, nid,
                    [Alloc(h, nid) EXCEPT ![nid].final = final,
                                          ![node].edges = PutEdge(@, char, nid)],
                    nid + 1)

\* The root of a finished construction together with the heap it left
WithRoot(r, root) == [heap |-> r.heap, nextId |-> r.nextId, root |-> root]

fromString(h, nid, str) ==
    WithRoot(fromStringLoop(str, 1, nid, Alloc(h, nid), nid + 1), nid)

\* "label in node.edges ? node.edges[label] : (node.edges[label] = new TokenSet)"
\* as fromFuzzyString does it for every kind of edit
EnsureEdge(st, node, label) ==
    IF HasEdge(st.heap[node].edges, label)
    THEN [heap |-> st.heap, nextId |-> st.nextId,
          target |-> GetEdge(st.heap[node].edges, label)]
    ELSE [heap |-> [Alloc(st.heap, st.nextId) EXCEPT
                       ![node].edges = PutEdge(@, label, st.nextId)],
          nextId |-> st.nextId + 1,
          target |-> st.nextId]

SetFinalIf(h, cond, node) == IF cond THEN [h EXCEPT ![node].final = TRUE] ELSE h

StrTail(s) == SubSeq(s, 2, Len(s))

\* stack.push({node: the edge's target, editsRemaining, str}), the target
\* made final first when the code's condition says so
PushTarget(e, stack, final, editsRemaining, str) ==
    [heap |-> SetFinalIf(e.heap, final, e.target),
     nextId |-> e.nextId,
     stack |-> Append(stack, [node |-> e.target,
                              editsRemaining |-> editsRemaining,
                              str |-> str])]

\* "no edit": follow the first character
NoEdit(st, frame) ==
    IF Len(frame.str) > 0
    THEN PushTarget(EnsureEdge(st, frame.node, frame.str[1]), st.stack,
                    Len(frame.str) = 1, frame.editsRemaining, StrTail(frame.str))
    ELSE st

\* "insertion": a "*" edge, the string kept
Insertion(st, frame) ==
    PushTarget(EnsureEdge(st, frame.node, "*"), st.stack,
               Len(frame.str) = 0, frame.editsRemaining - 1, frame.str)

\* "deletion": the same node with the first character dropped; dropping
\* the last character makes the node final
Deletion(st, frame) ==
    [heap |-> SetFinalIf(st.heap, Len(frame.str) = 1, frame.node),
     nextId |-> st.nextId,
     stack |-> IF Len(frame.str) > 1
               THEN Append(st.stack, [node |-> frame.node,
                                      editsRemaining |-> frame.editsRemaining - 1,
                                      str |-> StrTail(frame.str)])
               ELSE st.stack]

\* "substitution": a "*" edge, the first character dropped
Substitution(st, frame) ==
    IF Len(frame.str) >= 1
    THEN PushTarget(EnsureEdge(st, frame.node, "*"), st.stack,
                    Len(frame.str) = 1, frame.editsRemaining - 1, StrTail(frame.str))
    ELSE st

\* "transposition": follow the second character, the first one kept
Transposition(st, frame) ==
    IF Len(frame.str) > 1
    THEN PushTarget(EnsureEdge(st, frame.node, frame.str[2]), st.stack,
                    FALSE, frame.editsRemaining - 1,
                    <<frame.str[1]>> \o SubSeq(frame.str, 3, Len(frame.str)))
    ELSE st

\* One iteration of the while loop of fromFuzzyString on the popped frame
fuzzyFrame(st, frame) ==
    IF frame.editsRemaining = 0
    THEN NoEdit(st, frame)
    ELSE Transposition(Substitution(Deletion(Insertion(NoEdit(st, frame), frame),
                                             frame), frame), frame)

\* The while loop of fromFuzzyString. The frames an iteration pushes are
\* popped before any frame below them, so the loop runs on them alone and
\* then goes on with the frames that were below.
RECURSIVE fuzzyLoop(_)
fuzzyLoop(st) ==
    IF st.stack = << >> THEN st
    ELSE fuzzyLoop(
            [fuzzyLoop(fuzzyFrame([st EXCEPT !.stack = << >>], st.stack[Len(st.stack)]))
                EXCEPT !.stack = SubSeq(st.stack, 1, Len(st.stack) - 1)])

\* fromFuzzyString starting its root frame with one edit too many
fromFuzzyString_ExtraEdit(h, nid, str, editDistance) ==
    WithRoot(fuzzyLoop([heap |-> Alloc(h, nid), nextId |-> nid + 1,
                        stack |-> <<[node |-> nid,
                                     editsRemaining |-> editDistance + 1,
                                     str |-> str]>>]), nid)

\* TokenSet.fromFuzzyString(str, editDistance)
fromFuzzyString(h, nid, str, editDistance) ==
    WithRoot(fuzzyLoop([heap |-> Alloc(h, nid), nextId |-> nid + 1,
                        stack |-> <<[node |-> nid,
                                     editsRemaining |-> editDistance,
                                     str |-> str]>>]), nid)

\* The (qEdge, nEdge) pairs TokenSet.intersect admits for one frame, in the
\* order of its two nested loops
RECURSIVE FlattenSeq(_)
FlattenSeq(ss) == IF ss = << >> THEN << >> ELSE ss[1] \o FlattenSeq(Tail(ss))

admitted(qEdges, nEdges) ==
    FlattenSeq([q \in 1..Len(qEdges) |->
        LET Match(nEdge) == nEdge = qEdges[q] \/ qEdges[q] = "*"
            ns == SelectSeq(nEdges, Match)
        IN [n \in 1..Len(ns) |-> <<qEdges[q], ns[n]>>]])

\* The body of the inner loop of TokenSet.intersect for the admitted pairs
RECURSIVE intersectPairs(_, _, _, _, _)
\* The inner loop with every edge of the output led back to the node it
\* leaves
RECURSIVE intersectPairs_SelfEdge(_, _, _, _, _)
intersectPairs_SelfEdge(h, nid, stack, frame, pairs) ==
    IF pairs = << >> THEN [heap |-> h, nextId |-> nid, stack |-> stack]
    ELSE LET qEdge == pairs[1][1]
             nEdge == pairs[1][2]
             node == GetEdge(h[frame.node].edges, nEdge)
             qNode == GetEdge(h[frame.qNode].edges, qEdge)
             h2 == [h EXCEPT ![frame.output].edges =
                        IF HasEdge(@, nEdge) THEN @ ELSE PutEdge(@, nEdge, frame.output)]
         IN intersectPairs_SelfEdge(h2, nid,
                Append(stack, [qNode |-> qNode, output |-> frame.output, node |-> node]),
                frame, Tail(pairs))

intersectPairs(h, nid, stack, frame, pairs) ==
    IF pairs = << >> THEN [heap |-> h, nextId |-> nid, stack |-> stack]
    ELSE LET qEdge == pairs[1][1]
             nEdge == pairs[1][2]
             node == GetEdge(h[frame.node].edges, nEdge)
             qNode == GetEdge(h[frame.qNode].edges, qEdge)
             final == h[node].final /\ h[qNode].final
             exists == HasEdge(h[frame.output].edges, nEdge)
             next == IF exists THEN GetEdge(h[frame.output].edges, nEdge) ELSE nid
             h2 == IF exists
                   THEN [h EXCEPT ![next].final = @ \/ final]
                   ELSE [Alloc(h, nid) EXCEPT
                            ![nid].final = final,
                            ![frame.output].edges = PutEdge(@, nEdge, nid)]
         IN intersectPairs(h2, IF exists THEN nid ELSE nid + 1,
                Append(stack, [qNode |-> qNode, output |-> next, node |-> node]),
                frame, Tail(pairs))

\* The while loop of TokenSet.intersect, the frames an iteration pushes being
\* popped before any frame below them
RECURSIVE intersectLoop(_)
intersectLoop(st) ==
    IF st.stack = << >> THEN st
    ELSE intersectLoop(
            [intersectLoop(
                intersectPairs(st.heap, st.nextId, << >>, st.stack[Len(st.stack)],
                    admitted(ObjectKeys(st.heap[st.stack[Len(st.stack)].qNode].edges),
                             ObjectKeys(st.heap[st.stack[Len(st.stack)].node].edges))))
                EXCEPT !.stack = SubSeq(st.stack, 1, Len(st.stack) - 1)])

\* a.intersect(b)
intersect(h, nid, a, b) ==
    WithRoot(intersectLoop([heap |-> Alloc(h, nid), nextId |-> nid + 1,
                            stack |-> <<[qNode |-> b, output |-> nid, node |-> a]>>]),
             nid)

-----------------------------------------------------------------------------
(* TokenSetBuilder                                                          *)

\* new TokenSetBuilder(): minimizedNodes maps a key to the node registered
\* under it
NewBuilder(root) ==
    [previousWord |-> << >>, root |-> root, uncheckedNodes |-> << >>,
     minimizedNodes |-> << >>]

HasKey(m, k) == \E i \in 1..Len(m) : m[i][1] = k

GetKey(m, k) == m[CHOOSE i \in 1..Len(m) : m[i][1] = k][2]

\* TokenSetBuilder.minimize(downTo)
RECURSIVE minimize(_, _, _)
RECURSIVE minimizeNode(_, _, _, _, _)
\* A child registered under its key whether or not the key is taken
minimizeNode_NoMerge(h, b, downTo, node, childKey) ==
    minimize([h EXCEPT ![node.child].str = childKey],
             [b EXCEPT !.uncheckedNodes = SubSeq(@, 1, Len(@) - 1),
                       !.minimizedNodes = Append(@, <<childKey, node.child>>)],
             downTo)

minimizeNode(h, b, downTo, node, childKey) ==
    IF HasKey(b.minimizedNodes, childKey)
    THEN minimize(
            [h EXCEPT ![node.parent].edges =
                PutEdge(@, node.char, GetKey(b.minimizedNodes, childKey))],
            [b EXCEPT !.uncheckedNodes = SubSeq(@, 1, Len(@) - 1)],
            downTo)
    ELSE minimize(
            [h EXCEPT ![node.child].str = childKey],
            [b EXCEPT !.uncheckedNodes = SubSeq(@, 1, Len(@) - 1),
                      !.minimizedNodes = Append(@, <<childKey, node.child>>)],
            downTo)

minimize(h, b, downTo) ==
    IF Len(b.uncheckedNodes) - 1 < downTo THEN [heap |-> h, b |-> b]
    ELSE minimizeNode(h, b, downTo, b.uncheckedNodes[Len(b.uncheckedNodes)],
                      toString(h, b.uncheckedNodes[Len(b.uncheckedNodes)].child))

\* The commonPrefix loop of TokenSetBuilder.insert
RECURSIVE commonPrefix(_, _, _)
commonPrefix(word, previousWord, i) ==
    IF i < Len(word) /\ i < Len(previousWord) /\ word[i + 1] = previousWord[i + 1]
    THEN commonPrefix(word, previousWord, i + 1)
    ELSE i

\* The loop of TokenSetBuilder.insert that appends a node per character
RECURSIVE extend(_, _, _, _, _, _)
extend(h, nid, unchecked, node, word, i) ==
    IF i >= Len(word)
    THEN [heap |-> h, nextId |-> nid, unchecked |-> unchecked, node |-> node]
    ELSE extend([Alloc(h, nid) EXCEPT ![node].edges = PutEdge(@, word[i + 1], nid)],
                nid + 1,
                Append(unchecked, [parent |-> node, char |-> word[i + 1], child |-> nid]),
                nid, word, i + 1)

\* The end of TokenSetBuilder.insert: the last node becomes final
inserted(x, b, word) ==
    [heap |-> [x.heap EXCEPT ![x.node].final = TRUE],
     nextId |-> x.nextId,
     b |-> [b EXCEPT !.uncheckedNodes = x.unchecked, !.previousWord = word],
     thrown |-> FALSE]

\* TokenSetBuilder.insert after this.minimize(commonPrefix)
insertFrom(m, nid, word, cp) ==
    inserted(extend(m.heap, nid, m.b.uncheckedNodes,
                    IF Len(m.b.uncheckedNodes) = 0 THEN m.b.root
                    ELSE m.b.uncheckedNodes[Len(m.b.uncheckedNodes)].child,
                    word, cp),
             m.b, word)

\* TokenSetBuilder.insert(word); thrown is TRUE when it throws
\* "Out of order word insertion", and then nothing has changed
insert(h, nid, b, word) ==
    IF StrLess(word, b.previousWord)
    THEN [heap |-> h, nextId |-> nid, b |-> b, thrown |-> TRUE]
    ELSE insertFrom(minimize(h, b, commonPrefix(word, b.previousWord, 0)), nid, word,
                    commonPrefix(word, b.previousWord, 0))

\* The loop of TokenSet.fromArray, left when an insert throws
RECURSIVE insertAll(_, _, _)
insertAll(r, arr, i) ==
    IF r.thrown \/ i > Len(arr) THEN r
    ELSE insertAll(insert(r.heap, r.nextId, r.b, arr[i]), arr, i + 1)

\* builder.finish() and the return of builder.root
finishArray(r, root) ==
    [heap |-> IF r.thrown THEN r.heap ELSE minimize(r.heap, r.b, 0).heap,
     nextId |-> r.nextId, root |-> root, thrown |-> r.thrown]

\* TokenSet.fromArray(arr)
fromArray(h, nid, arr) ==
    finishArray(insertAll([heap |-> Alloc(h, nid), nextId |-> nid + 1,
                           b |-> NewBuilder(nid), thrown |-> FALSE], arr, 1), nid)

-----------------------------------------------------------------------------
(* What the automata are meant to compute                                   *)

\* Pattern p matches word w, every "*" standing for any run of characters
RECURSIVE Matches(_, _)
Matches(p, w) ==
    IF p = << >> THEN w = << >>
    ELSE IF p[1] = "*"
         THEN Matches(Tail(p), w) \/ (w # << >> /\ Matches(p, Tail(w)))
         ELSE w # << >> /\ w[1] = p[1] /\ Matches(Tail(p), Tail(w))

\* The strings one edit away from w: an insertion or substitution of a
\* character of A, a deletion, or a transposition of two adjacent characters
Edits1(w, A) ==
    LET n == Len(w) IN
    {SubSeq(w, 1, i) \o <<c>> \o SubSeq(w, i + 1, n) : i \in 0..n, c \in A}
    \cup {SubSeq(w, 1, i - 1) \o SubSeq(w, i + 1, n) : i \in 1..n}
    \cup {SubSeq(w, 1, i - 1) \o <<c>> \o SubSeq(w, i + 1, n) : i \in 1..n, c \in A}
    \cup {SubSeq(w, 1, i - 1) \o <<w[i + 1], w[i]>> \o SubSeq(w, i + 2, n) :
            i \in 1..(n - 1)}

\* The strings at edit distance at most k from s
RECURSIVE EditBall(_, _, _)
EditBall(s, k, A) ==
    IF k = 0 THEN {s}
    ELSE LET B == EditBall(s, k - 1, A)
         IN B \cup UNION {Edits1(w, A) : w \in B}

-----------------------------------------------------------------------------
(* The token set operations as steps of a program                           *)

Letters == {"a", "b"}

\* The sorted arrays of at most n distinct words of W
RECURSIVE SubsetsUpTo(_, _)
SubsetsUpTo(W, n) ==
    IF n = 0 THEN {{}}
    ELSE LET P == SubsetsUpTo(W, n - 1) IN P \cup {S \cup {w} : S \in P, w \in W}

SortedArrays(W, n) == {SortStrings(S) : S \in SubsetsUpTo(W, n)}

\* A sorted vocabulary of digit words on which nodes 10 and 20 get the
\* same key from TokenSet.toString
DigitVocab ==
    << <<"0">>,
       <<"1", "0", "0", "0", "0", "0", "0">>,
       <<"1", "1", "0">>,
       <<"1", "1", "1", "0", "0", "0", "0", "0", "0", "0", "0", "0">>,
       <<"1", "1", "1", "0", "0", "0", "0", "0", "0", "0", "0", "0", "0">>,
       <<"1", "1", "1", "0", "0", "0", "0", "0", "0", "0", "0", "1">> >>

Vocabularies == SortedArrays(StringsOver(Letters, 0, MaxLen), MaxVocab) \cup {DigitVocab}

Patterns == StringsOver(Letters \cup {"*"}, 0, MaxPat)

None == [root |-> 0]

InitTS ==
    /\ nextId \in 1..MaxStart
    /\ heap = << >>
    /\ sets = [corpus |-> None, str |-> None, fuzzy |-> None, out |-> None]
    /\ words = [corpus |-> None, out |-> None]
    /\ builder = None /\ index = None /\ loaded = None /\ result = None
    /\ protoAccessor = FALSE   \* a token set has no key "__proto__"
    /\ vector = None
    /\ pipeline = None
    /\ lexer = None
    /\ parser = None
    /\ intersection = None
    /\ matches = None
    /\ queryObjects = None

\* The token set r.root, just built, is kept under name x
Keep(r, x, args) ==
    /\ heap' = r.heap
    /\ nextId' = r.nextId
    /\ sets' = [sets EXCEPT ![x] = [root |-> r.root] @@ args]
    /\ UNCHANGED <<words, builder, index, loaded, result, protoAccessor, vector, pipeline, lexer, parser, intersection, matches, queryObjects>>

\* corpus = TokenSet.fromArray(arr), for a sorted arr
FromArray(arr) ==
    /\ sets.corpus = None
    /\ Keep(fromArray(heap, nextId, arr), "corpus", [arr |-> arr])

\* str = TokenSet.fromString(p)
FromString(p) ==
    /\ sets.str = None
    /\ Keep(fromString(heap, nextId, p), "str", [str |-> p])

\* fuzzy = TokenSet.fromFuzzyString(s, k)
FromFuzzyString(s, k) ==
    /\ sets.fuzzy = None
    /\ Keep(fromFuzzyString(heap, nextId, s, k), "fuzzy",
            [str |-> s, editDistance |-> k])

\* out = a.intersect(b)
Intersect(a, b) ==
    /\ sets[a] # None /\ sets[b] # None /\ sets.out = None
    /\ Keep(intersect(heap, nextId, sets[a].root, sets[b].root), "out",
            [a |-> a, b |-> b])

\* x.toArray() for the corpus or the result of an intersection
ToArray(x) ==
    /\ sets[x] # None /\ words[x] = None
    /\ words' = [words EXCEPT ![x] = [root |-> sets[x].root,
                                      arr |-> toArray(heap, sets[x].root)]]
    /\ UNCHANGED <<nextId, heap, sets, builder, index, loaded, result, protoAccessor, vector, pipeline, lexer, parser, intersection, matches, queryObjects>>

\* Wildcard matching: fromArray(V).intersect(fromString(p)).toArray()
NextWild ==
    \/ \E arr \in Vocabularies : FromArray(arr)
    \/ \E p \in Patterns : FromString(p)
    \/ Intersect("corpus", "str")
    \/ ToArray("corpus")
    \/ ToArray("out")

SpecWild == InitTS /\ [][NextWild]_vars

FuzzyLetters == {"a", "b", "c"}

\* Fuzzy automaton as the receiver:
\* fromFuzzyString(s, k).intersect(fromString(t)).toArray()
NextFuzzyReceiver ==
    \/ \E s \in StringsOver(FuzzyLetters, 1, MaxTerm), k \in 0..MaxEdit :
            FromFuzzyString(s, k)
    \/ \E t \in StringsOver(FuzzyLetters, 1, MaxLen) : FromString(t)
    \/ Intersect("fuzzy", "str")
    \/ ToArray("out")

SpecFuzzyReceiver == InitTS /\ [][NextFuzzyReceiver]_vars

\* The orientation of LunrIndex.query:
\* fromArray(V).intersect(fromFuzzyString(s, k)).toArray()
NextFuzzyQuery ==
    \/ \E arr \in SortedArrays(StringsOver(FuzzyLetters, 1, MaxTerm), MaxVocab) :
            FromArray(arr)
    \/ \E s \in StringsOver(FuzzyLetters, 1, MaxLen), k \in 1..MaxEdit :
            FromFuzzyString(s, k)
    \/ Intersect("corpus", "fuzzy")
    \/ ToArray("out")

SpecFuzzyQuery == InitTS /\ [][NextFuzzyQuery]_vars

-----------------------------------------------------------------------------
(* Claims about the token sets                                              *)

AsSet(x) == Range(words[x].arr)

\* C1: fromArray(V).intersect(fromString(p)).toArray() is, as a set, exactly
\* the words of V that the pattern p matches, "*" matching any run of
\* characters, the empty run included.
C1_WildcardIntersect ==
    (words.out # None /\ sets.out.a = "corpus" /\ sets.out.b = "str")
        => AsSet("out") = {w \in Range(sets.corpus.arr) : Matches(sets.str.str, w)}

\* C2: fromArray(V).toArray() returns exactly the words of the sorted
\* vocabulary V, as a set: none is missing and none is invented.
C2_FromArrayToArray ==
    words.corpus # None => AsSet("corpus") = Range(sets.corpus.arr)

\* C3 as claimed: with the fuzzy automaton as the receiver and the literal
\* automaton as the argument, the intersection is non-empty if and only if
\* the edit distance between s and t is at most k.
C3_FuzzyReceiverIff ==
    (words.out # None /\ sets.out.a = "fuzzy" /\ sets.out.b = "str")
        => (AsSet("out") # {}
              <=> sets.str.str \in EditBall(sets.fuzzy.str, sets.fuzzy.editDistance,
                                            FuzzyLetters))

\* C3 as amended: with the fuzzy automaton as the receiver and an argument
\* built from a string t without "*", the intersection is non-empty only if
\* the edit distance between s and t is at most k.
C3_FuzzyReceiverOnlyIf ==
    (/\ words.out # None /\ sets.out.a = "fuzzy" /\ sets.out.b = "str"
     /\ "*" \notin Range(sets.str.str)
     /\ AsSet("out") # {})
        => sets.str.str \in EditBall(sets.fuzzy.str, sets.fuzzy.editDistance,
                                     FuzzyLetters)

\* A fuzzy receiver matched a different string within its budget
C3_Witness ==
    /\ words.out # None /\ sets.out.a = "fuzzy" /\ sets.out.b = "str"
    /\ "*" \notin Range(sets.str.str)
    /\ sets.str.str # sets.fuzzy.str
    /\ sets.fuzzy.editDistance = 1
    /\ AsSet("out") # {}

\* C4: fromArray(V).intersect(fromFuzzyString(s, k)).toArray(), k >= 1, is
\* exactly the set of words of V at edit distance at most k from s.
C4_FuzzyQueryExact ==
    (words.out # None /\ sets.out.a = "corpus" /\ sets.out.b = "fuzzy")
        => AsSet("out") = {w \in Range(sets.corpus.arr) :
                              w \in EditBall(sets.fuzzy.str, sets.fuzzy.editDistance,
                                             FuzzyLetters)}

-----------------------------------------------------------------------------
(* JavaScript objects                                                       *)

\* An object's own enumerable properties are a list of (key, value) pairs in
\* insertion order. No key of the model is integer-like, so Object.keys and
\* for-in give the keys in insertion order.
HasOwn(o, k) == \E i \in 1..Len(o) : o[i][1] = k

\* o[k] for an own property k
Own(o, k) == o[CHOOSE i \in 1..Len(o) : o[i][1] = k][2]

\* o[k] = v
SetOwn(o, k, v) ==
    IF HasOwn(o, k)
    THEN [i \in 1..Len(o) |-> IF o[i][1] = k THEN <<k, v>> ELSE o[i]]
    ELSE Append(o, <<k, v>>)

\* Object.keys(o)
OwnKeys(o) == [i \in 1..Len(o) |-> o[i][1]]

Constructor == <<"c", "o", "n", "s", "t", "r", "u", "c", "t", "o", "r">>

ProtoTerm == <<"_", "_", "p", "r", "o", "t", "o", "_", "_">>

\* Keys that an object literal {} has without owning them: o[k] is not
\* undefined and (k in o) is true for them
ObjectPrototypeNames ==
    IF protoAccessor THEN {Constructor, ProtoTerm} ELSE {Constructor}

\* o[k] = v on an object literal creates no own property: with the
\* accessor, "__proto__" replaces the prototype when v is an object and
\* does nothing when v is a primitive
SetsPrototype(k) == protoAccessor /\ k = ProtoTerm

-----------------------------------------------------------------------------
(* Vector: a flat array index, value, index, value, ...                     *)

\* elements[i] for a JavaScript (0-based) position i
At(elements, i) == elements[i + 1]

\* The while loop of Vector.positionForIndex; gives the final pivotPoint
RECURSIVE pivotLoop(_, _, _, _, _)
pivotLoop(elements, idx, start, end, pivotPoint) ==
    IF end - start > 1 /\ At(elements, pivotPoint * 2) # idx
    THEN pivotLoop(elements, idx,
            IF At(elements, pivotPoint * 2) < idx THEN pivotPoint ELSE start,
            IF At(elements, pivotPoint * 2) > idx THEN pivotPoint ELSE end,
            (IF At(elements, pivotPoint * 2) < idx THEN pivotPoint ELSE start)
              + ((IF At(elements, pivotPoint * 2) > idx THEN pivotPoint ELSE end)
                 - (IF At(elements, pivotPoint * 2) < idx THEN pivotPoint ELSE start))
                \div 2)
    ELSE pivotPoint

\* The position the final pivot gives
positionAt(elements, idx, pivotPoint) ==
    IF At(elements, pivotPoint * 2) >= idx THEN pivotPoint * 2
    ELSE (pivotPoint + 1) * 2

\* The position after the last element, whatever the index
positionForIndex_End(elements, idx) == Len(elements)

\* Vector.positionForIndex(index)
positionForIndex(elements, idx) ==
    IF Len(elements) = 0 THEN 0
    ELSE positionAt(elements, idx,
            pivotLoop(elements, idx, 0, Len(elements) \div 2,
                      (Len(elements) \div 2) \div 2))

\* elements.splice(position, 0, insertIdx, val)
splice(elements, position, insertIdx, val) ==
    SubSeq(elements, 1, position) \o <<insertIdx, val>>
    \o SubSeq(elements, position + 1, Len(elements))

\* Vector.upsert at the position found. fn is "sum" for the merge function
\* of LunrIndex.query, "throw" for the one of Vector.insert and "none" for
\* a call without a function, which leaves the value of a duplicate alone.
upsertAt(elements, position, insertIdx, val, fn) ==
    IF position < Len(elements) /\ At(elements, position) = insertIdx
    THEN [elements |-> IF fn = "sum"
                       THEN [elements EXCEPT ![position + 2] = @ + val]
                       ELSE elements,
          thrown |-> fn = "throw"]
    ELSE [elements |-> splice(elements, position, insertIdx, val), thrown |-> FALSE]

\* Vector.upsert(insertIdx, val, fn)
upsert(elements, insertIdx, val, fn) ==
    upsertAt(elements, positionForIndex(elements, insertIdx), insertIdx, val, fn)

\* An insert that merges with the sum where it finds the index
insertElement_Sum(elements, insertIdx, val) == upsert(elements, insertIdx, val, "sum")

\* Vector.insert(insertIdx, val)
insertElement(elements, insertIdx, val) == upsert(elements, insertIdx, val, "throw")

\* The sum of squares Vector.magnitude takes the root of
RECURSIVE sumOfSquares(_, _)
sumOfSquares(elements, i) ==
    IF i >= Len(elements) THEN 0
    ELSE At(elements, i) * At(elements, i) + sumOfSquares(elements, i + 2)

\* Vector.dot(otherVector)
RECURSIVE dot(_, _, _, _)
dot(a, b, i, j) ==
    IF ~(i < Len(a) /\ j < Len(b)) THEN 0
    ELSE IF At(a, i) < At(b, j) THEN dot(a, b, i + 2, j)
    ELSE IF At(a, i) > At(b, j) THEN dot(a, b, i, j + 2)
    ELSE At(a, i + 1) * At(b, j + 1) + dot(a, b, i + 2, j + 2)

\* The largest r in lo..hi with r * r <= n
RECURSIVE IsqrtIn(_, _, _)
IsqrtIn(n, lo, hi) ==
    IF lo >= hi THEN lo
    ELSE IF ((lo + hi + 1) \div 2) * ((lo + hi + 1) \div 2) <= n
         THEN IsqrtIn(n, (lo + hi + 1) \div 2, hi)
         ELSE IsqrtIn(n, lo, ((lo + hi + 1) \div 2) - 1)

\* Math.sqrt(n) in hundredths, truncated
SqrtHundredths(n) == IsqrtIn(n * 10000, 0, 100 * n)

\* Vector.similarity(otherVector): dot / magnitude || 0. The values of the
\* receiver, a query vector, are whole numbers and those of the other, a
\* field vector, are thousandths; the result is in millionths, truncated.
similarity(a, b) ==
    IF sumOfSquares(a, 1) = 0 THEN 0
    ELSE (dot(a, b, 0, 0) * 100000) \div SqrtHundredths(sumOfSquares(a, 1))

-----------------------------------------------------------------------------
(* LunrSet                                                                  *)

\* The two sentinels and an ordinary set: elements holds the own keys of
\* this.elements, which is an object literal.
completeLunrSet == [kind |-> "complete", elements |-> << >>, length |-> 0]

emptyLunrSet == [kind |-> "empty", elements |-> << >>, length |-> 0]

\* The loop of the LunrSet constructor: this.elements[element] = true
RECURSIVE addElements(_, _, _)
addElements(own, elements, i) ==
    IF i > Len(elements) THEN own
    ELSE addElements(IF SetsPrototype(elements[i]) \/ elements[i] \in Range(own)
                     THEN own ELSE Append(own, elements[i]),
                     elements, i + 1)

\* new LunrSet(elements)
LunrSet(elements) ==
    [kind |-> "set", elements |-> addElements(<< >>, elements, 1),
     length |-> Len(elements)]

\* "k in elements" and "!!elements[k]" for the elements of an ordinary set
InElements(set, k) == k \in Range(set.elements) \/ k \in ObjectPrototypeNames

\* LunrSet.contains(object)
contains(set, object) ==
    CASE set.kind = "complete" -> TRUE
      [] set.kind = "empty" -> FALSE
      [] OTHER -> InElements(set, object)

\* The elements of a that are "in" b.elements
IsInB(b, elements) == SelectSeq(elements, LAMBDA e : InElements(b, e))

\* LunrSet.intersect(other), by the class of the receiver
intersectSet(this, other) ==
    CASE this.kind = "empty" -> this
      [] this.kind = "complete" -> other
      [] other.kind = "complete" -> this
      [] other.kind = "empty" -> other
      [] OTHER -> IF this.length < other.length
                  THEN LunrSet(IsInB(other, this.elements))
                  ELSE LunrSet(IsInB(this, other.elements))

\* LunrSet.union(other), by the class of the receiver
unionSet(this, other) ==
    CASE this.kind = "empty" -> other
      [] this.kind = "complete" -> this
      [] other.kind = "complete" -> completeLunrSet
      [] other.kind = "empty" -> this
      [] OTHER -> LunrSet(this.elements \o other.elements)

-----------------------------------------------------------------------------
(* Pipeline                                                                 *)

\* The words of the stop word list that the terms of the model can be
StopWords == {<<"a">>}

\* The labels of Pipeline.registeredFunctions
RegisteredFunctions == {"stopWordFilter"}

\* The pipeline function stopWordFilter, with the label it is registered by
stopWordFilter == [label |-> "stopWordFilter"]

\* str.toUpperCase(), for the letters the terms of queries are made of
toUpperCase(str) ==
    [i \in 1..Len(str) |-> CASE str[i] = "a" -> "A"
                             [] str[i] = "b" -> "B"
                             [] OTHER -> str[i]]

\* A function that expands a token, as the tests of Pipeline.run add it:
\* t => [t, t.toString().toUpperCase()]. It is not registered.
expandingFunction == [label |-> "expandingFunction"]

\* A pipeline function applied to a token: the tokens it passes on.
\* stopWordFilter returns undefined for a stop word and the token otherwise.
ApplyFn(fn, token) ==
    CASE fn.label = "stopWordFilter" ->
            IF token \in StopWords THEN << >> ELSE <<token>>
      [] fn.label = "expandingFunction" -> <<token, toUpperCase(token)>>

\* Pipeline.toJSON(): the labels of the functions
pipelineToJSON(stack) == [i \in 1..Len(stack) |-> stack[i].label]

\* Pipeline.load(serialised): the function registered by each label, an
\* error thrown for a label that is not registered
pipelineLoad(serialised) ==
    [thrown |-> \E i \in 1..Len(serialised) : serialised[i] \notin RegisteredFunctions,
     stack |-> [i \in 1..Len(serialised) |-> [label |-> serialised[i]]]]

\* One stage of Pipeline.run: the function applied to every token, the
\* results that are not null, undefined or '' collected in memo
RECURSIVE runStage(_, _, _)
runStage(fn, tokens, j) ==
    IF j > Len(tokens) THEN << >>
    ELSE ApplyFn(fn, tokens[j]) \o runStage(fn, tokens, j + 1)

\* Pipeline.run(tokens)
RECURSIVE run(_, _, _)
run(stack, tokens, i) ==
    IF i > Len(stack) THEN tokens
    ELSE run(stack, runStage(stack[i], tokens, 1), i + 1)

\* Pipeline.runString(str): the pipeline run on the one token of str
runString(stack, str) == run(stack, <<str>>, 1)

-----------------------------------------------------------------------------
(* FieldRef                                                                 *)

\* FieldRef.toString(): fieldName + "/" + docRef
fieldRefString(docRef, fieldName) == fieldName \o <<"/">> \o docRef

\* s.indexOf("/"), counted from 1
indexOfJoiner(s) ==
    CHOOSE n \in 1..Len(s) : s[n] = "/" /\ \A m \in 1..(n - 1) : s[m] # "/"

\* FieldRef.fromString(s), for s that holds a joiner
fieldRefFromString(s) ==
    [fieldName |-> SubSeq(s, 1, indexOfJoiner(s) - 1),
     docRef |-> SubSeq(s, indexOfJoiner(s) + 1, Len(s))]

-----------------------------------------------------------------------------
(* Builder                                                                  *)

\* BM25 parameters: _k1 = 1.2 in tenths and _b = 0.75 in hundredths
K1x10 == 12

Bx100 == 75

\* new Builder(): tokenSet is the id its "new TokenSet()" took. fields lists
\* the keys of _fields and documents the own keys of _documents; no field
\* has a boost or an extractor and no document has attributes. thrown
\* tells whether the last call on the builder threw.
Builder(tokenSet) ==
    [fields |-> << >>, documents |-> << >>, invertedIndex |-> << >>,
     fieldTermFrequencies |-> << >>, fieldLengths |-> << >>,
     pipeline |-> << >>, searchPipeline |-> << >>,
     documentCount |-> 0, termIndex |-> 0, tokenSet |-> tokenSet,
     thrown |-> FALSE]

\* Builder.field(fieldName), for a name without "/"
defineField(b, fieldName) ==
    [b EXCEPT !.fields = IF fieldName \in Range(@) THEN @ ELSE Append(@, fieldName)]

\* The initial posting of a term: _index and an empty map for every field
newPosting(b) ==
    [index |-> b.termIndex,
     maps |-> [i \in 1..Len(b.fields) |-> <<b.fields[i], << >> >>]]

\* A posting created without this.termIndex moving on
ensurePosting_SameIndex(b, term) ==
    IF HasOwn(b.invertedIndex, term) THEN b
    ELSE [b EXCEPT !.invertedIndex = Append(@, <<term, newPosting(b)>>)]

\* "create an initial posting if one doesn't exist"
ensurePosting(b, term) ==
    IF HasOwn(b.invertedIndex, term) THEN b
    ELSE [b EXCEPT !.invertedIndex = Append(@, <<term, newPosting(b)>>),
                   !.termIndex = @ + 1]

\* invertedIndex[term][fieldName][docRef] = Object.create(null) if undefined
addToPosting(posting, fieldName, docRef) ==
    [posting EXCEPT !.maps =
        SetOwn(@, fieldName,
               IF docRef \in Range(Own(@, fieldName)) THEN Own(@, fieldName)
               ELSE Append(Own(@, fieldName), docRef))]

\* fieldTerms[term] += 1, from 0 if undefined
countTerm(fieldTerms, term) ==
    SetOwn(fieldTerms, term,
           IF HasOwn(fieldTerms, term) THEN Own(fieldTerms, term) + 1 ELSE 1)

\* The body of the loop over the terms of a field in Builder.add, the
\* posting of the term already there: a TypeError where the posting has no
\* map for the field, invertedIndex[term][fieldName] being undefined
addTermToPosting(b, fieldName, docRef, term) ==
    [b EXCEPT
       !.fieldTermFrequencies =
           SetOwn(@, fieldRefString(docRef, fieldName),
                  countTerm(Own(@, fieldRefString(docRef, fieldName)), term)),
       !.invertedIndex =
           IF HasOwn(Own(@, term).maps, fieldName)
           THEN SetOwn(@, term, addToPosting(Own(@, term), fieldName, docRef))
           ELSE @,
       !.thrown = ~HasOwn(Own(b.invertedIndex, term).maps, fieldName)]

RECURSIVE addTerms(_, _, _, _, _)
addTerms(b, fieldName, docRef, terms, i) ==
    IF i > Len(terms) \/ b.thrown THEN b
    ELSE addTerms(addTermToPosting(ensurePosting(b, terms[i]), fieldName, docRef,
                                   terms[i]),
                  fieldName, docRef, terms, i + 1)

\* doc[fieldName] through the tokenizer: a field value is an array of
\* lower case strings, of which the tokenizer makes one token each, and an
\* absent field gives no token
fieldTokens(doc, fieldName) ==
    IF HasOwn(doc.values, fieldName) THEN Own(doc.values, fieldName) ELSE << >>

\* The body of the loop over the fields in Builder.add
addField(b, fieldName, docRef, terms) ==
    addTerms([b EXCEPT
                !.fieldTermFrequencies =
                    SetOwn(@, fieldRefString(docRef, fieldName), << >>),
                !.fieldLengths =
                    SetOwn(@, fieldRefString(docRef, fieldName), Len(terms))],
             fieldName, docRef, terms, 1)

RECURSIVE addFields(_, _, _)
addFields(b, doc, i) ==
    IF i > Len(b.fields) \/ b.thrown THEN b
    ELSE addFields(addField(b, b.fields[i], doc.ref,
                            run(b.pipeline, fieldTokens(doc, b.fields[i]), 1)),
                   doc, i + 1)

\* Builder.add(doc). _documents is an object literal, in which the key
\* "__proto__" makes no own property.
add(b, doc) ==
    addFields([b EXCEPT
                 !.documents = IF SetsPrototype(doc.ref) \/ doc.ref \in Range(@)
                               THEN @ ELSE Append(@, doc.ref),
                 !.documentCount = @ + 1],
              doc, 1)

\* round(10^4 * ln(1 + |N - n + 0.5| / (n + 0.5))) for document count N (the
\* row) and n documents with the term (the column)
IdfTable ==
    << <<2877, 1823, 3567, 4418, 4925, 5261, 5500, 5680, 5819, 5931>>,
       <<6931, 1823, 1335, 2877, 3747, 4308, 4700, 4990, 5213, 5390>>,
       <<9808, 4700, 1335, 1054, 2412, 3254, 3830, 4249, 4568, 4818>>,
       <<12040, 6931, 3567, 1054, 870, 2076, 2877, 3448, 3878, 4212>>,
       <<13863, 8755, 5390, 2877, 870, 741, 1823, 2578, 3137, 3567>> >>

\* The documentsWithTerm of inverseDocumentFrequency: the sizes of the maps
\* of all fields added up
RECURSIVE documentsWithTerm(_, _)
documentsWithTerm(maps, i) ==
    IF i > Len(maps) THEN 0
    ELSE Len(maps[i][2]) + documentsWithTerm(maps, i + 1)

\* inverseDocumentFrequency(posting, documentCount), in units of 10^-4
inverseDocumentFrequency(posting, documentCount) ==
    IdfTable[documentCount][documentsWithTerm(posting.maps, 1)]

\* What calculateAverageFieldLengths adds up for a field: the lengths of
\* the field over all documents (total) and the number of them (count);
\* averageFieldLength[field] is total / count
RECURSIVE fieldTotals(_, _, _, _)
fieldTotals(fieldLengths, fieldName, i, acc) ==
    IF i > Len(fieldLengths) THEN acc
    ELSE fieldTotals(fieldLengths, fieldName, i + 1,
            IF fieldRefFromString(fieldLengths[i][1]).fieldName = fieldName
            THEN [total |-> acc.total + fieldLengths[i][2], count |-> acc.count + 1]
            ELSE acc)

\* Math.round(score * 1000) for
\* score = idf * ((k1 + 1) * tf) / (k1 * (1 - b + b * (fieldLength / avg)) + tf):
\* numerator and denominator multiplied by 1000 * total, avg being
\* total / count
bm25(idf, tf, fieldLength, avg) ==
    (2 * idf * ((K1x10 + 10) * tf * avg.total * 100)
       + 10 * (K1x10 * ((100 - Bx100) * avg.total + Bx100 * fieldLength * avg.count)
               + 1000 * tf * avg.total))
    \div (20 * (K1x10 * ((100 - Bx100) * avg.total + Bx100 * fieldLength * avg.count)
                + 1000 * tf * avg.total))

\* The loop over the terms of a field in createFieldVectors
RECURSIVE termScores(_, _, _, _, _, _)
termScores(b, elements, termFrequencies, fieldLength, avg, i) ==
    IF i > Len(termFrequencies) THEN elements
    ELSE termScores(b,
            insertElement(elements,
                Own(b.invertedIndex, termFrequencies[i][1]).index,
                bm25(inverseDocumentFrequency(
                        Own(b.invertedIndex, termFrequencies[i][1]), b.documentCount),
                     termFrequencies[i][2], fieldLength, avg)).elements,
            termFrequencies, fieldLength, avg, i + 1)

\* Builder.createFieldVectors(), after calculateAverageFieldLengths(): a
\* vector for every key of fieldTermFrequencies
createFieldVectors(b) ==
    [i \in 1..Len(b.fieldTermFrequencies) |->
        <<b.fieldTermFrequencies[i][1],
          termScores(b, << >>, b.fieldTermFrequencies[i][2],
                     Own(b.fieldLengths, b.fieldTermFrequencies[i][1]),
                     fieldTotals(b.fieldLengths,
                        fieldRefFromString(b.fieldTermFrequencies[i][1]).fieldName, 1,
                        [total |-> 0, count |-> 0]),
                     1)>>]

\* The LunrIndex that Builder.build() returns, its token set just made by
\* createTokenSet(): TokenSet.fromArray(Object.keys(invertedIndex).sort()).
\* The inverted index of a builder has no prototype.
builtIndex(b, ts) ==
    [heap |-> ts.heap, nextId |-> ts.nextId, thrown |-> ts.thrown,
     index |-> [invertedIndex |-> b.invertedIndex, plain |-> FALSE,
                proto |-> << >>,
                fieldVectors |-> createFieldVectors(b),
                tokenSet |-> ts.root, fields |-> b.fields,
                pipeline |-> b.searchPipeline]]

\* Builder.build()
build(h, nid, b) ==
    builtIndex(b, fromArray(h, nid, SortStrings(Range(OwnKeys(b.invertedIndex)))))

-----------------------------------------------------------------------------
(* MatchData                                                                *)

\* metadata is an object literal of terms, each an object literal of
\* fields; no metadata key is whitelisted, so a field holds {}. A match
\* data is the list of (term, fields) own properties.

\* "k in o" for an object literal o
InObject(o, k) == HasOwn(o, k) \/ k \in ObjectPrototypeNames

\* new MatchData(term, field, metadata): metadata["__proto__"] = {} makes no
\* own property
newMatchData(term, field) ==
    IF SetsPrototype(term) THEN << >> ELSE << <<term, <<field>> >> >>

\* new MatchData()
blankMatchData == << >>

\* MatchData.add(term, field, metadata): for a term that metadata inherits,
\* the field is set on the inherited object
addMatch(md, term, field) ==
    IF ~InObject(md, term) THEN Append(md, <<term, <<field>> >>)
    ELSE IF ~HasOwn(md, term) THEN md
    ELSE SetOwn(md, term, IF field \in Range(Own(md, term)) THEN Own(md, term)
                          ELSE Append(Own(md, term), field))

\* The loop of combine over the fields of a term
RECURSIVE combineFields(_, _, _)
combineFields(fields, otherFields, j) ==
    IF j > Len(otherFields) THEN fields
    ELSE combineFields(IF otherFields[j] \in Range(fields) THEN fields
                       ELSE Append(fields, otherFields[j]),
                       otherFields, j + 1)

\* The body of the loop of combine over the terms
combineTerm(md, term, otherFields) ==
    IF HasOwn(md, term)
    THEN SetOwn(md, term, combineFields(Own(md, term), otherFields, 1))
    ELSE IF term \in ObjectPrototypeNames THEN md
    ELSE Append(md, <<term, combineFields(<< >>, otherFields, 1)>>)

\* MatchData.combine(otherMatchData)
RECURSIVE combine(_, _, _)
combine(md, other, i) ==
    IF i > Len(other) THEN md
    ELSE combine(combineTerm(md, other[i][1], other[i][2]), other, i + 1)

-----------------------------------------------------------------------------
(* Query                                                                    *)

OPTIONAL == 1

REQUIRED == 2

PROHIBITED == 3

\* new Query(allFields)
Query(allFields) == [clauses |-> << >>, allFields |-> allFields]

\* QueryWildCard
NONE == 0

\* Whether the wildcard flags hold QueryWildCard.LEADING (1 << 0)
HasLeading(wildcard) == wildcard % 2 = 1

\* Whether the wildcard flags hold QueryWildCard.TRAILING (1 << 1)
HasTrailing(wildcard) == (wildcard \div 2) % 2 = 1

\* The clause with property key set to v
SetProperty(c, key, v) ==
    [k \in DOMAIN c \cup {key} |-> IF k = key THEN v ELSE c[k]]

\* The clause with the default of property key where it lacks the property
Default(c, key, v) == IF key \in DOMAIN c THEN c ELSE SetProperty(c, key, v)

\* The term of a clause with the '*' its wildcard flags ask for
wildcardTerm(c) ==
    LET leading == IF HasLeading(c.wildcard) /\ (c.term = << >> \/ Head(c.term) # "*")
                   THEN <<"*">> \o c.term ELSE c.term
    IN IF HasTrailing(c.wildcard) /\ (leading = << >> \/ leading[Len(leading)] # "*")
       THEN leading \o <<"*">> ELSE leading

\* The clause as Query.clause(clause) leaves it: the defaults of the
\* attributes the clause lacks and the wildcards put on the term
completed(q, c) ==
    LET d == Default(Default(Default(Default(c, "fields", q.allFields), "boost", 1),
                             "usePipeline", TRUE), "wildcard", NONE)
    IN Default(SetProperty(d, "term", wildcardTerm(d)), "presence", OPTIONAL)

\* Query.clause(clause)
clause(q, c) == [q EXCEPT !.clauses = Append(@, completed(q, c))]

\* Query.isNegated()
isNegated(q) == \A i \in 1..Len(q.clauses) : q.clauses[i].presence = PROHIBITED

\* The query builder function that submits the clauses cs in order
RECURSIVE buildQuery(_, _, _)
buildQuery(q, cs, i) ==
    IF i > Len(cs) THEN q ELSE buildQuery(clause(q, cs[i]), cs, i + 1)

\* TokenSet.fromClause(clause)
fromClause(h, nid, c) ==
    IF "editDistance" \in DOMAIN c
    THEN fromFuzzyString(h, nid, c.term,
                         IF c.editDistance = 0 THEN 1 ELSE c.editDistance)
    ELSE fromString(h, nid, c.term)

-----------------------------------------------------------------------------
(* LunrIndex.query                                                          *)

\* this.invertedIndex[term], as a list: the posting, or nothing where the
\* lookup gives undefined or an inherited object without postings. The
\* inverted index of a loaded index is an object literal whose prototype
\* the key "__proto__" replaced if proto is not empty.
postingOf(idx, term) ==
    IF HasOwn(idx.invertedIndex, term) THEN <<Own(idx.invertedIndex, term)>>
    ELSE IF idx.plain /\ SetsPrototype(term) THEN idx.proto
    ELSE << >>

\* The locals of query before the first clause; nextId is TokenSet._nextId
queryLocals(idx, nid) ==
    [matchingFields |-> << >>,
     queryVectors |-> [i \in 1..Len(idx.fields) |-> <<idx.fields[i], << >> >>],
     termFieldCache |-> {}, prohibitedMatches |-> << >>, requiredMatches |-> << >>,
     clauseMatches |-> emptyLunrSet, broke |-> FALSE, thrown |-> FALSE,
     nextId |-> nid]

\* REQUIRED: the documents join clauseMatches and the field gets a
\* required set if it has none
require(qs, fieldName, set) ==
    [qs EXCEPT !.clauseMatches = unionSet(@, set),
               !.requiredMatches = IF HasOwn(@, fieldName) THEN @
                                   ELSE SetOwn(@, fieldName, completeLunrSet)]

\* PROHIBITED with the documents left out of the prohibited set
prohibit_Forgotten(qs, fieldName, set) == qs

\* PROHIBITED: the documents join the prohibited set of the field
prohibit(qs, fieldName, set) ==
    [qs EXCEPT !.prohibitedMatches =
        SetOwn(@, fieldName,
               unionSet(IF HasOwn(@, fieldName) THEN Own(@, fieldName)
                        ELSE emptyLunrSet, set))]

\* queryVectors[field].upsert(termIndex, clause.boost, (a, b) => a + b)
boostTerm(qs, fieldName, termIndex, boost) ==
    [qs EXCEPT !.queryVectors =
        SetOwn(@, fieldName, upsert(Own(@, fieldName), termIndex, boost, "sum").elements)]

\* The loop over matchingDocumentRefs: match data per field ref
RECURSIVE collectRefs(_, _, _, _, _)
collectRefs(mf, term, fieldName, refs, i) ==
    IF i > Len(refs) THEN mf
    ELSE collectRefs(
            SetOwn(mf, fieldRefString(refs[i], fieldName),
                   IF HasOwn(mf, fieldRefString(refs[i], fieldName))
                   THEN addMatch(Own(mf, fieldRefString(refs[i], fieldName)),
                                 term, fieldName)
                   ELSE newMatchData(term, fieldName)),
            term, fieldName, refs, i + 1)

\* The match data of a term and field, unless termFieldCache has the pair
collect(qs, term, fieldName, refs) ==
    IF (term \o <<"/">> \o fieldName) \in qs.termFieldCache THEN qs
    ELSE [qs EXCEPT !.matchingFields = collectRefs(@, term, fieldName, refs, 1),
                    !.termFieldCache = @ \cup {term \o <<"/">> \o fieldName}]

\* The body of the loop over clause.fields for an expanded term; refs is
\* Object.keys(posting[field])
fieldStep(qs, c, expandedTerm, termIndex, fieldName, refs) ==
    IF c.presence = PROHIBITED THEN prohibit(qs, fieldName, LunrSet(refs))
    ELSE collect(boostTerm(IF c.presence = REQUIRED
                           THEN require(qs, fieldName, LunrSet(refs))
                           ELSE qs,
                           fieldName, termIndex, c.boost),
                 expandedTerm, fieldName, refs)

RECURSIVE fieldsLoop(_, _, _, _, _)
fieldsLoop(qs, c, expandedTerm, posting, i) ==
    IF i > Len(c.fields) THEN qs
    ELSE fieldsLoop(fieldStep(qs, c, expandedTerm, posting.index, c.fields[i],
                              Own(posting.maps, c.fields[i])),
                    c, expandedTerm, posting, i + 1)

\* The body of the loop over expandedTerms: a TypeError where the posting
\* is undefined, or is an inherited object and a field is read from it
expandedStep(qs, idx, c, expandedTerm) ==
    IF postingOf(idx, expandedTerm) # << >>
    THEN fieldsLoop(qs, c, expandedTerm, postingOf(idx, expandedTerm)[1], 1)
    ELSE IF idx.plain /\ expandedTerm \in ObjectPrototypeNames /\ c.fields = << >>
         THEN qs
         ELSE [qs EXCEPT !.thrown = TRUE]

RECURSIVE expandedLoop(_, _, _, _, _)
expandedLoop(qs, idx, c, expandedTerms, j) ==
    IF j > Len(expandedTerms) \/ qs.thrown THEN qs
    ELSE expandedLoop(expandedStep(qs, idx, c, expandedTerms[j]), idx, c,
                      expandedTerms, j + 1)

\* requiredMatches[field] = emptyLunrSet for every field of the clause
RECURSIVE setEmpty(_, _, _)
setEmpty(rm, fields, i) ==
    IF i > Len(fields) THEN rm
    ELSE setEmpty(SetOwn(rm, fields[i], emptyLunrSet), fields, i + 1)

\* this.tokenSet.intersect(termTokenSet).toArray(), and the ids taken
toArrayOf(r) == [terms |-> toArray(r.heap, r.root), nextId |-> r.nextId]

intersectWith(tokenSet, r) == intersect(r.heap, r.nextId, tokenSet, r.root)

expand(h, nid, tokenSet, c) == toArrayOf(intersectWith(tokenSet, fromClause(h, nid, c)))

\* The body of the loop over the terms of a clause, x the expansion of the
\* term: a REQUIRED term that expands to nothing empties the required sets
\* and leaves the loop
termStep(qs, idx, c, x) ==
    IF x.terms = << >> /\ c.presence = REQUIRED
    THEN [qs EXCEPT !.requiredMatches = setEmpty(@, c.fields, 1),
                    !.broke = TRUE, !.nextId = x.nextId]
    ELSE expandedLoop([qs EXCEPT !.nextId = x.nextId], idx, c, x.terms, 1)

RECURSIVE termsLoop(_, _, _, _, _, _)
termsLoop(qs, h, idx, c, terms, k) ==
    IF k > Len(terms) \/ qs.broke \/ qs.thrown THEN qs
    ELSE termsLoop(termStep(qs, idx, [c EXCEPT !.term = terms[k]],
                            expand(h, qs.nextId, idx.tokenSet,
                                   [c EXCEPT !.term = terms[k]])),
                   h, idx, c, terms, k + 1)

\* requiredMatches[field] = requiredMatches[field].intersect(clauseMatches)
\* for every field of a REQUIRED clause: a TypeError where the field has
\* no required set
RECURSIVE requiredUpdate(_, _, _)
requiredUpdate(qs, c, i) ==
    IF i > Len(c.fields) \/ qs.thrown THEN qs
    ELSE requiredUpdate(
            IF HasOwn(qs.requiredMatches, c.fields[i])
            THEN [qs EXCEPT !.requiredMatches =
                     SetOwn(@, c.fields[i],
                            intersectSet(Own(@, c.fields[i]), qs.clauseMatches))]
            ELSE [qs EXCEPT !.thrown = TRUE],
            c, i + 1)

afterTerms(qs, c) ==
    IF qs.thrown \/ c.presence # REQUIRED THEN qs ELSE requiredUpdate(qs, c, 1)

\* The body of the loop over query.clauses
clauseStep(qs, h, idx, c) ==
    afterTerms(termsLoop([qs EXCEPT !.clauseMatches = emptyLunrSet, !.broke = FALSE],
                         h, idx, c,
                         IF c.usePipeline THEN runString(idx.pipeline, c.term)
                         ELSE <<c.term>>,
                         1),
               c)

RECURSIVE clausesLoop(_, _, _, _, _)
clausesLoop(qs, h, idx, clauses, i) ==
    IF i > Len(clauses) \/ qs.thrown THEN qs
    ELSE clausesLoop(clauseStep(qs, h, idx, clauses[i]), h, idx, clauses, i + 1)


\* allRequiredMatches: the required sets of the fields intersected
RECURSIVE allRequiredMatches(_, _, _, _)
allRequiredMatches(qs, fields, i, acc) ==
    IF i > Len(fields) THEN acc
    ELSE allRequiredMatches(qs, fields, i + 1,
            IF HasOwn(qs.requiredMatches, fields[i])
            THEN intersectSet(acc, Own(qs.requiredMatches, fields[i]))
            ELSE acc)

\* allProhibitedMatches: the prohibited sets of the fields united
RECURSIVE allProhibitedMatches(_, _, _, _)
allProhibitedMatches(qs, fields, i, acc) ==
    IF i > Len(fields) THEN acc
    ELSE allProhibitedMatches(qs, fields, i + 1,
            IF HasOwn(qs.prohibitedMatches, fields[i])
            THEN unionSet(acc, Own(qs.prohibitedMatches, fields[i]))
            ELSE acc)

\* A negated query: blank match data for every field ref of the index
RECURSIVE seedBlank(_, _, _)
seedBlank(mf, refs, i) ==
    IF i > Len(refs) THEN mf
    ELSE seedBlank(SetOwn(mf, refs[i], blankMatchData), refs, i + 1)

\* matches[docRef] is not undefined: the score is added and the match
\* data combined; matches is an object literal, and what it inherits has
\* no matchData, so that combine is called on undefined
addScore(st, docRef, score, matchData) ==
    IF \E k \in 1..Len(st.results) : st.results[k].ref = docRef
    THEN [st EXCEPT !.results =
             [k \in 1..Len(@) |->
                 IF @[k].ref = docRef
                 THEN [ref |-> docRef, score |-> @[k].score + score,
                       matchData |-> combine(@[k].matchData, matchData, 1)]
                 ELSE @[k]]]
    ELSE IF docRef \in ObjectPrototypeNames
         THEN [st EXCEPT !.thrown = TRUE]
         ELSE [st EXCEPT !.results =
                  Append(@, [ref |-> docRef, score |-> score, matchData |-> matchData])]

\* The body of the loop over matchingFieldRefs: a TypeError where the index
\* has no vector for the field ref, similarity reading the elements of
\* undefined
refStep(st, idx, qs, fieldRefStr, fieldRef, required, prohibited) ==
    IF ~contains(required, fieldRef.docRef) THEN st
    ELSE IF contains(prohibited, fieldRef.docRef) THEN st
    ELSE IF ~HasOwn(idx.fieldVectors, fieldRefStr) THEN [st EXCEPT !.thrown = TRUE]
    ELSE addScore(st, fieldRef.docRef,
                  similarity(Own(qs.queryVectors, fieldRef.fieldName),
                             Own(idx.fieldVectors, fieldRefStr)),
                  Own(qs.matchingFields, fieldRefStr))

RECURSIVE refsLoop(_, _, _, _, _, _, _)
refsLoop(st, idx, qs, refs, i, required, prohibited) ==
    IF i > Len(refs) \/ st.thrown THEN st
    ELSE refsLoop(refStep(st, idx, qs, refs[i], fieldRefFromString(refs[i]),
                          required, prohibited),
                  idx, qs, refs, i + 1, required, prohibited)

\* The results left in the order the loop over the field refs made them in
sortResults_Unsorted(sorted, results, i) == results

\* results.sort((a, b) => b.score - a.score): a stable sort, highest first
RECURSIVE sortResults(_, _, _)
sortResults(sorted, results, i) ==
    IF i > Len(results) THEN sorted
    ELSE sortResults(
            SelectSeq(sorted, LAMBDA r : r.score >= results[i].score)
            \o <<results[i]>>
            \o SelectSeq(sorted, LAMBDA r : r.score < results[i].score),
            results, i + 1)

\* What query returns, with the locals the clauses are judged by: results
\* is empty where an error was thrown
returned(st, q, qs, required, prohibited) ==
    [thrown |-> st.thrown,
     results |-> IF st.thrown THEN << >> ELSE sortResults(<< >>, st.results, 1),
     clauses |-> q.clauses, queryVectors |-> qs.queryVectors,
     filtered |-> TRUE, required |-> required, prohibited |-> prohibited,
     nextId |-> qs.nextId]

\* query from the end of the loop over the clauses
aggregate(idx, q, qs, required, prohibited) ==
    IF isNegated(q)
    THEN returned(refsLoop([results |-> << >>, thrown |-> FALSE], idx,
                           [qs EXCEPT !.matchingFields =
                               seedBlank(@, OwnKeys(idx.fieldVectors), 1)],
                           OwnKeys(idx.fieldVectors), 1, required, prohibited),
                  q, qs, required, prohibited)
    ELSE returned(refsLoop([results |-> << >>, thrown |-> FALSE], idx, qs,
                           OwnKeys(qs.matchingFields), 1, required, prohibited),
                  q, qs, required, prohibited)

afterClauses(idx, q, qs) ==
    IF qs.thrown
    THEN [thrown |-> TRUE, results |-> << >>, clauses |-> q.clauses,
          queryVectors |-> qs.queryVectors, filtered |-> FALSE,
          required |-> completeLunrSet, prohibited |-> emptyLunrSet,
          nextId |-> qs.nextId]
    ELSE aggregate(idx, q, qs,
                   allRequiredMatches(qs, idx.fields, 1, completeLunrSet),
                   allProhibitedMatches(qs, idx.fields, 1, emptyLunrSet))

queryWith(h, nid, idx, q) ==
    afterClauses(idx, q, clausesLoop(queryLocals(idx, nid), h, idx, q.clauses, 1))

\* LunrIndex.query(fn), fn submitting the clauses cs
query(h, nid, idx, cs) == queryWith(h, nid, idx, buildQuery(Query(idx.fields), cs, 1))

-----------------------------------------------------------------------------
(* LunrIndex.toJSON and LunrIndex.load                                      *)

\* toJSON(): the own keys of the inverted index, sorted, each with its
\* posting; the field vectors in key order; fields and pipeline
toJSON(idx) ==
    [fields |-> idx.fields,
     fieldVectors |-> idx.fieldVectors,
     invertedIndex |->
        [i \in 1..Len(SortStrings(Range(OwnKeys(idx.invertedIndex)))) |->
            <<SortStrings(Range(OwnKeys(idx.invertedIndex)))[i],
              Own(idx.invertedIndex, SortStrings(Range(OwnKeys(idx.invertedIndex)))[i])>>],
     pipeline |-> pipelineToJSON(idx.pipeline)]

\* The loop of load over serializedInvertedIndex: the term goes to the
\* token set builder, and invertedIndex[term] = posting on an object
\* literal makes the posting the prototype for the term "__proto__"
RECURSIVE loadTerms(_, _, _)
loadTerms(st, tuples, i) ==
    IF i > Len(tuples) \/ st.ts.thrown THEN st
    ELSE loadTerms(
            [ts |-> insert(st.ts.heap, st.ts.nextId, st.ts.b, tuples[i][1]),
             invertedIndex |-> IF SetsPrototype(tuples[i][1]) THEN st.invertedIndex
                               ELSE SetOwn(st.invertedIndex, tuples[i][1], tuples[i][2]),
             proto |-> IF SetsPrototype(tuples[i][1]) THEN <<tuples[i][2]>>
                       ELSE st.proto],
            tuples, i + 1)

\* The index load returns, after tokenSetBuilder.finish()
loadedIndex(serializedIndex, st, ts) ==
    [heap |-> ts.heap, nextId |-> ts.nextId,
     thrown |-> ts.thrown \/ pipelineLoad(serializedIndex.pipeline).thrown,
     index |-> [invertedIndex |-> st.invertedIndex, plain |-> TRUE,
                proto |-> st.proto,
                fieldVectors |-> serializedIndex.fieldVectors,
                tokenSet |-> ts.root, fields |-> serializedIndex.fields,
                pipeline |-> pipelineLoad(serializedIndex.pipeline).stack]]

loadFrom(serializedIndex, st, root) ==
    loadedIndex(serializedIndex, st, finishArray(st.ts, root))

\* LunrIndex.load(serializedIndex)
load(h, nid, serializedIndex) ==
    loadFrom(serializedIndex,
             loadTerms([ts |-> [heap |-> Alloc(h, nid), nextId |-> nid + 1,
                                b |-> NewBuilder(nid), thrown |-> FALSE],
                        invertedIndex |-> << >>, proto |-> << >>],
                       serializedIndex.invertedIndex, 1),
             nid)

-----------------------------------------------------------------------------
(* Building, loading and querying an index                                  *)

MaxDocs == 2         \* most documents added to the builder
MaxClauses == 2      \* most clauses of a query

FieldT == <<"t">>

FieldB == <<"b">>

FieldNames == {FieldT, FieldB}

TermA == <<"a">>

TermB == <<"b">>

DocX == <<"x">>

DocY == <<"y">>

\* The documents queries are run over, in the order they are added in:
\* the ref and, by field, the array of lower case strings that is the value
\* of the field
QueryDocs ==
    << [ref |-> DocX, values |-> << <<FieldT, <<TermA>> >>, <<FieldB, <<TermB>> >> >>],
       [ref |-> DocY, values |-> << <<FieldT, <<TermB>> >>, <<FieldB, <<TermA, TermB>> >> >>],
       [ref |-> Constructor, values |-> << <<FieldT, <<TermA>> >> >>] >>

\* The documents serialised indexes are made of
ReloadDocs ==
    << [ref |-> DocX, values |-> << <<FieldT, <<ProtoTerm, TermA>> >> >>],
       [ref |-> DocY, values |-> << <<FieldT, <<TermA>> >>, <<FieldB, <<TermB>> >> >>] >>

\* The clauses of the queries: a term, a presence and, for a scoped clause,
\* the field
ClauseOptions(fields) ==
    [term : {TermA, TermB, <<"*">>}, presence : {OPTIONAL, REQUIRED, PROHIBITED}]
    \cup [term : {TermA}, presence : {OPTIONAL, REQUIRED, PROHIBITED},
          fields : {<<f>> : f \in Range(fields) \cap {FieldT}}]

Queries(fields) == UNION {[1..n -> ClauseOptions(fields)] : n \in 0..MaxClauses}

\* What search(s) submits for a query string s of one plain term
SearchStrings == {TermA, TermB, ProtoTerm}

NoResult == [built |-> None, loaded |-> None]

\* The state after "new Builder()" in a fresh process: the builder's own
\* token set took id 1
InitIndex ==
    /\ nextId = 2
    /\ heap = (1 :> NewNode)
    /\ sets = [corpus |-> None, str |-> None, fuzzy |-> None, out |-> None]
    /\ words = [corpus |-> None, out |-> None]
    /\ builder = Builder(1)
    /\ index = None /\ loaded = None /\ result = NoResult
    /\ protoAccessor \in BOOLEAN
    /\ vector = None
    /\ pipeline = None
    /\ lexer = None
    /\ parser = None
    /\ intersection = None
    /\ matches = None
    /\ queryObjects = None

\* builder.field(f), before any document is added
DefineField(f) ==
    /\ index = None /\ builder.documentCount = 0
    /\ f \notin Range(builder.fields)
    /\ builder' = defineField(builder, f)
    /\ UNCHANGED <<nextId, heap, sets, words, index, loaded, result, protoAccessor, vector, pipeline, lexer, parser, intersection, matches, queryObjects>>

\* builder.searchPipeline.add(stopWordFilter)
UseStopWords ==
    /\ index = None /\ stopWordFilter \notin Range(builder.searchPipeline)
    /\ builder' = [builder EXCEPT !.searchPipeline = Append(@, stopWordFilter)]
    /\ UNCHANGED <<nextId, heap, sets, words, index, loaded, result, protoAccessor, vector, pipeline, lexer, parser, intersection, matches, queryObjects>>

\* builder.searchPipeline.add(expandingFunction)
UseExpandingFunction ==
    /\ index = None /\ expandingFunction \notin Range(builder.searchPipeline)
    /\ builder' = [builder EXCEPT !.searchPipeline = Append(@, expandingFunction)]
    /\ UNCHANGED <<nextId, heap, sets, words, index, loaded, result, protoAccessor, vector, pipeline, lexer, parser, intersection, matches, queryObjects>>

\* builder.add(docs[i]), no document from the i-th on added before
Add(docs, i) ==
    /\ index = None /\ builder.documentCount < MaxDocs
    /\ \A j \in i..Len(docs) : docs[j].ref \notin Range(builder.documents)
    /\ builder' = add(builder, docs[i])
    /\ UNCHANGED <<nextId, heap, sets, words, index, loaded, result, protoAccessor, vector, pipeline, lexer, parser, intersection, matches, queryObjects>>

MaxCycles == 2       \* most toJSON/load cycles an index goes through

\* The index r.index, just made, is kept under x; an error thrown by build
\* leaves no index
Made(r, x, cycles) ==
    /\ heap' = r.heap
    /\ nextId' = r.nextId
    /\ index' = IF x = "index" /\ ~r.thrown THEN r.index ELSE index
    /\ loaded' = IF x = "loaded"
                 THEN [index |-> r.index, thrown |-> r.thrown, cycles |-> cycles]
                 ELSE loaded
    /\ UNCHANGED <<sets, words, builder, result, protoAccessor, vector, pipeline, lexer, parser, intersection, matches, queryObjects>>

\* index = builder.build()
Build ==
    /\ index = None
    /\ Made(build(heap, nextId, builder), "index", 0)

\* loaded = LunrIndex.load(index.toJSON())
Load ==
    /\ index # None /\ loaded = None
    /\ Made(load(heap, nextId, toJSON(index)), "loaded", 1)

\* loaded = LunrIndex.load(loaded.toJSON())
Reload ==
    /\ loaded # None /\ ~loaded.thrown /\ loaded.cycles < MaxCycles
    /\ Made(load(heap, nextId, toJSON(loaded.index)), "loaded", loaded.cycles + 1)

\* What the query returned or threw is kept under x
Ran(r, x) ==
    /\ result' = [result EXCEPT ![x] = r]
    /\ nextId' = r.nextId
    /\ UNCHANGED <<heap, sets, words, builder, index, loaded, protoAccessor, vector, pipeline, lexer, parser, intersection, matches, queryObjects>>

\* index.query(fn), fn submitting the clauses cs
RunQuery(cs) ==
    /\ index # None /\ result.built = None
    /\ Ran(query(heap, nextId, index, cs), "built")

RunQueries ==
    /\ index # None
    /\ \E cs \in Queries(index.fields) : RunQuery(cs)

\* index.search(s) for a string s of one plain term: the parser submits
\* the term with every other attribute left to its default
Search(s) == RunQuery(<<[term |-> s]>>)

\* loaded.search(s)
SearchLoaded(s) ==
    /\ loaded # None /\ ~loaded.thrown /\ result.loaded = None
    /\ Ran(query(heap, nextId, loaded.index, <<[term |-> s]>>), "loaded")

NextQuery ==
    \/ \E f \in FieldNames : DefineField(f)
    \/ UseStopWords
    \/ \E i \in 1..Len(QueryDocs) : Add(QueryDocs, i)
    \/ Build
    \/ RunQueries

\* No key of these runs is "__proto__": they are the same on a runtime
\* with the accessor and on one without
InitQuery == InitIndex /\ ~protoAccessor

SpecQuery == InitQuery /\ [][NextQuery]_vars

NextExpand ==
    \/ NextQuery
    \/ UseExpandingFunction

SpecExpand == InitQuery /\ [][NextExpand]_vars

NextReload ==
    \/ \E f \in FieldNames : DefineField(f)
    \/ UseStopWords
    \/ \E i \in 1..Len(ReloadDocs) : Add(ReloadDocs, i)
    \/ Build
    \/ Load
    \/ Reload
    \/ \E s \in SearchStrings : Search(s)
    \/ \E s \in SearchStrings : SearchLoaded(s)

SpecReload == InitIndex /\ [][NextReload]_vars

-----------------------------------------------------------------------------
(* What a query is meant to return, told from the documents added           *)

\* The documents added to the builder
AddedDocs == {d \in Range(QueryDocs) : d.ref \in Range(builder.documents)}

\* Document d has term w in field f of the index
DocHas(d, f, w) == f \in Range(index.fields) /\ w \in Range(fieldTokens(d, f))

\* The terms of the corpus
CorpusTerms ==
    {w \in {TermA, TermB} : \E d \in AddedDocs, f \in FieldNames : DocHas(d, f, w)}

\* The terms the search pipeline makes of the term of a clause
PipelineTerms(c) ==
    IF c.usePipeline THEN runString(index.pipeline, c.term) ELSE <<c.term>>

SearchTerms(c) == Range(PipelineTerms(c))

\* The corpus terms a clause expands to
Expanded(c) == {w \in CorpusTerms : \E p \in SearchTerms(c) : Matches(p, w)}

\* Document d has an expanded term of clause c in one of the fields of c
Satisfies(d, c) == \E f \in Range(c.fields), w \in Expanded(c) : DocHas(d, f, w)

Queried == result.built # None

Clauses == result.built.clauses

ClausesOf(presence) == {k \in 1..Len(Clauses) : Clauses[k].presence = presence}

Returned == {result.built.results[k].ref : k \in 1..Len(result.built.results)}

SatisfiesRequired(d) == \A k \in ClausesOf(REQUIRED) : Satisfies(d, Clauses[k])

SatisfiesProhibited(d) == \E k \in ClausesOf(PROHIBITED) : Satisfies(d, Clauses[k])

ShouldReturn(d) ==
    /\ \E k \in 1..Len(Clauses) :
          Clauses[k].presence # PROHIBITED /\ Satisfies(d, Clauses[k])
    /\ SatisfiesRequired(d)
    /\ ~SatisfiesProhibited(d)

\* C5: a query that is not fully negated returns a document if and only if
\* the document has an expanded term of a non-prohibited clause in a field
\* of that clause, satisfies every REQUIRED clause and no PROHIBITED clause
C5_ReturnedIff ==
    (Queried /\ ~isNegated(result.built))
        => \A d \in AddedDocs : d.ref \in Returned <=> ShouldReturn(d)

\* C6: every returned document has, for every REQUIRED clause, an expanded
\* term of the clause in at least one of the fields of the clause, and the
\* required filter drops no document that has
C6_RequiredAnyField ==
    Queried =>
        /\ \A d \in AddedDocs : d.ref \in Returned => SatisfiesRequired(d)
        /\ result.built.filtered =>
              \A d \in AddedDocs :
                  SatisfiesRequired(d) => contains(result.built.required, d.ref)

\* The weight a field's query vector is meant to have for a term: the
\* boost, always 1, of every clause not PROHIBITED over the field, once
\* for each term the pipeline makes of the clause that matches the term
Weight(f, w) ==
    Cardinality({p \in (1..Len(Clauses)) \X (1..2) :
                    /\ Clauses[p[1]].presence # PROHIBITED
                    /\ f \in Range(Clauses[p[1]].fields)
                    /\ p[2] <= Len(PipelineTerms(Clauses[p[1]]))
                    /\ Matches(PipelineTerms(Clauses[p[1]])[p[2]], w)})

VectorEntries(elements) ==
    {<<elements[2 * k - 1], elements[2 * k]>> : k \in 1..(Len(elements) \div 2)}

ExpectedEntries(f) ==
    {<<Own(index.invertedIndex, w).index, Weight(f, w)>> :
        w \in {v \in CorpusTerms : Weight(f, v) > 0}}

\* C7: no returned document has an expanded term of a PROHIBITED clause in
\* a field of that clause; the query vectors hold the terms of the other
\* clauses only, and so does the match data of every result
C7_ProhibitedExcluded ==
    Queried =>
        /\ \A d \in AddedDocs : d.ref \in Returned => ~SatisfiesProhibited(d)
        /\ result.built.filtered =>
              \A f \in Range(index.fields) :
                  /\ VectorEntries(Own(result.built.queryVectors, f)) = ExpectedEntries(f)
                  /\ Len(Own(result.built.queryVectors, f))
                        = 2 * Cardinality(ExpectedEntries(f))
        /\ \A k \in 1..Len(result.built.results) :
              \A j \in 1..Len(result.built.results[k].matchData) :
                  \A f \in Range(result.built.results[k].matchData[j][2]) :
                      Weight(f, result.built.results[k].matchData[j][1]) > 0

\* A query with a PROHIBITED clause that returns a document and leaves
\* out one that another clause of it matches
C7_Witness ==
    /\ Queried /\ ClausesOf(PROHIBITED) # {}
    /\ Returned # {}
    /\ \E d \in AddedDocs :
          /\ SatisfiesProhibited(d)
          /\ \E k \in ClausesOf(OPTIONAL) : Satisfies(d, Clauses[k])

\* The documents with a field in the index
IndexedDocs == IF index.fields = << >> THEN {} ELSE AddedDocs

\* C8: a query whose clauses are all PROHIBITED returns exactly the indexed
\* documents that are in no prohibited set, each once, with score 0 and
\* empty match data
C8_NegatedReturnsRest ==
    (Queried /\ isNegated(result.built)) =>
        /\ Returned = {d.ref : d \in {e \in IndexedDocs : ~SatisfiesProhibited(e)}}
        /\ Len(result.built.results) = Cardinality(Returned)
        /\ \A k \in 1..Len(result.built.results) :
              /\ result.built.results[k].score = 0
              /\ result.built.results[k].matchData = << >>

\* C9: a query with a REQUIRED clause that no corpus term matches, be it
\* that the term expands to nothing or that the search pipeline makes no
\* term of it, completes and returns an empty list
C9_RequiredNoMatch ==
    (Queried /\ \E k \in ClausesOf(REQUIRED) : Expanded(Clauses[k]) = {})
        => ~result.built.thrown /\ result.built.results = << >>

\* C10: load never throws on the output of toJSON, and after one or two
\* toJSON/load cycles a search returns what it returns on the built index
C10_RoundTrip ==
    /\ loaded # None => ~loaded.thrown
    /\ (/\ result.built # None /\ result.loaded # None
        /\ result.built.clauses = result.loaded.clauses)
          => /\ result.built.thrown = result.loaded.thrown
             /\ result.built.results = result.loaded.results


\* Whether a query is meant to return document d, whatever its ref
WouldReturn(d) ==
    IF isNegated(result.built) THEN d \in IndexedDocs /\ ~SatisfiesProhibited(d)
    ELSE ShouldReturn(d)

\* C11: a query over an index that holds the document with the ref
\* "constructor" completes without an error and returns that document
\* exactly when a document of another name with the same fields would be
\* returned
C11_BuiltinNames ==
    (Queried /\ \E d \in AddedDocs : d.ref = Constructor) =>
        /\ ~result.built.thrown
        /\ \A d \in AddedDocs :
              d.ref = Constructor => (d.ref \in Returned <=> WouldReturn(d))


-----------------------------------------------------------------------------
(* The builder used after build()                                           *)

MaxIds == 12         \* largest TokenSet._nextId at which build is called again

\* builder.add(docs[i]) after build(): the index holds the very inverted
\* index object of the builder, so that what add writes to it the index
\* has too
AddLater(docs, i) ==
    /\ index # None /\ ~builder.thrown /\ builder.documentCount < MaxDocs
    /\ \A j \in i..Len(docs) : docs[j].ref \notin Range(builder.documents)
    /\ builder' = add(builder, docs[i])
    /\ index' = [index EXCEPT !.invertedIndex = builder'.invertedIndex]
    /\ UNCHANGED <<nextId, heap, sets, words, loaded, result, protoAccessor, vector, pipeline, lexer, parser, intersection, matches, queryObjects>>

\* builder.field(f) after build(): the index has its own array of field
\* names
FieldLater(f) ==
    /\ index # None /\ ~builder.thrown
    /\ f \notin Range(builder.fields)
    /\ builder' = defineField(builder, f)
    /\ UNCHANGED <<nextId, heap, sets, words, index, loaded, result, protoAccessor, vector, pipeline, lexer, parser, intersection, matches, queryObjects>>

\* builder.build() once more, the index it returns dropped: the field
\* vectors and the token set are made anew
Rebuild ==
    /\ index # None /\ ~builder.thrown /\ nextId <= MaxIds
    /\ Made(build(heap, nextId, builder), "dropped", 0)

\* The documents x and y, whose refs no object inherits
OrdinaryDocs == SubSeq(QueryDocs, 1, 2)

NextFrozen ==
    \/ \E f \in FieldNames : DefineField(f)
    \/ \E i \in 1..Len(OrdinaryDocs) : Add(OrdinaryDocs, i)
    \/ Build
    \/ \E i \in 1..Len(OrdinaryDocs) : AddLater(OrdinaryDocs, i)
    \/ \E f \in FieldNames : FieldLater(f)
    \/ Rebuild

SpecFrozen == InitQuery /\ [][NextFrozen]_vars

\* What search(s) gives on an index: whether it throws, and the results
Outcome(h, nid, idx, s) ==
    [thrown |-> query(h, nid, idx, <<[term |-> s]>>).thrown,
     results |-> query(h, nid, idx, <<[term |-> s]>>).results]

\* C12: no operation on the builder after build() changes what the index
\* built gives for a search, be it the results or an error
C12_ReadOnly ==
    [][(index # None /\ index' # None) =>
          \A s \in {TermA, TermB} :
              Outcome(heap', nextId', index', s) = Outcome(heap, nextId, index, s)]_vars


-----------------------------------------------------------------------------
(* The builder given fields and documents in any order                      *)

\* builder.field(f) between two calls of add
FieldBetween(f) ==
    /\ index = None /\ ~builder.thrown /\ builder.documentCount > 0
    /\ f \notin Range(builder.fields)
    /\ builder' = defineField(builder, f)
    /\ UNCHANGED <<nextId, heap, sets, words, index, loaded, result, protoAccessor, vector, pipeline, lexer, parser, intersection, matches, queryObjects>>

\* builder.add(doc) for a document not added yet, whichever
AddAny(doc) ==
    /\ index = None /\ ~builder.thrown /\ builder.documentCount < MaxDocs
    /\ doc.ref \notin Range(builder.documents)
    /\ builder' = add(builder, doc)
    /\ UNCHANGED <<nextId, heap, sets, words, index, loaded, result, protoAccessor, vector, pipeline, lexer, parser, intersection, matches, queryObjects>>

NextBuilder ==
    \/ \E f \in FieldNames : DefineField(f)
    \/ \E f \in FieldNames : FieldBetween(f)
    \/ \E doc \in Range(QueryDocs) : AddAny(doc)

SpecBuilder == InitQuery /\ [][NextBuilder]_vars

\* Every add saw every field: the fields were all defined before the first
\* document, and no add threw
FieldsFirst ==
    /\ ~builder.thrown
    /\ Len(builder.fieldLengths) = Len(builder.fields) * builder.documentCount

\* A second builder with the same fields, given the same documents in the
\* order of QueryDocs
RECURSIVE WithFields(_, _, _)
WithFields(b, fields, i) ==
    IF i > Len(fields) THEN b ELSE WithFields(defineField(b, fields[i]), fields, i + 1)

RECURSIVE WithDocs(_, _, _)
WithDocs(b, docs, i) ==
    IF i > Len(docs) THEN b ELSE WithDocs(add(b, docs[i]), docs, i + 1)

IsAdded(doc) == doc.ref \in Range(builder.documents)

SecondBuilder ==
    WithDocs(WithFields(Builder(1), builder.fields, 1), SelectSeq(QueryDocs, IsAdded), 1)

\* The inverted index of a builder as a map: for every term its termIndex
\* and, by field, the set of document refs
PostingsOf(b) ==
    {<<b.invertedIndex[k][1], b.invertedIndex[k][2].index,
       {<<m[1], Range(m[2])>> : m \in Range(b.invertedIndex[k][2].maps)}>> :
        k \in 1..Len(b.invertedIndex)}

\* The field vectors build() makes, as a map
VectorsOf(b) == Range(createFieldVectors(b))

\* The array build() makes the token set of
TokensOf(b) == SortStrings(Range(OwnKeys(b.invertedIndex)))

\* C13: a builder and a second one with the same fields that was given the
\* same documents in another order have the same inverted index, termIndex
\* of every term included, the same field vectors and the same token set
C13_OrderIndependent ==
    FieldsFirst =>
        /\ PostingsOf(builder) = PostingsOf(SecondBuilder)
        /\ VectorsOf(builder) = VectorsOf(SecondBuilder)
        /\ TokensOf(builder) = TokensOf(SecondBuilder)


\* No two terms of the inverted index have the same termIndex
TermIndexDistinct(b) ==
    \A j, k \in 1..Len(b.invertedIndex) :
        j # k => b.invertedIndex[j][2].index # b.invertedIndex[k][2].index

\* A step leaves every term its termIndex, and gives the terms it brings
\* the values the counter termIndex ran through
TermIndexKept(b, c) ==
    /\ \A k \in 1..Len(b.invertedIndex) :
          /\ HasOwn(c.invertedIndex, b.invertedIndex[k][1])
          /\ Own(c.invertedIndex, b.invertedIndex[k][1]).index
                = b.invertedIndex[k][2].index
    /\ \A k \in 1..Len(c.invertedIndex) :
          ~HasOwn(b.invertedIndex, c.invertedIndex[k][1]) =>
              /\ c.invertedIndex[k][2].index >= b.termIndex
              /\ c.invertedIndex[k][2].index < c.termIndex

\* C14: every call on the builder leaves the termIndex of every term of
\* the inverted index as it was assigned when the term was first seen, and
\* no two terms have the same termIndex
C14_TermIndexStable ==
    [][TermIndexKept(builder, builder') /\ TermIndexDistinct(builder')]_vars

\* Two adds have brought two terms
C14_Witness ==
    /\ builder.documentCount >= 2
    /\ Len(builder.invertedIndex) >= 2
    /\ \E k \in 1..Len(builder.invertedIndex) : builder.invertedIndex[k][2].index > 0


\* C15: after any calls of field and add, every posting of the inverted
\* index has a map of document refs for every field of the builder, and no
\* add has thrown for want of one
C15_PostingsHaveFields ==
    /\ ~builder.thrown
    /\ \A k \in 1..Len(builder.invertedIndex) :
          \A f \in Range(builder.fields) :
              HasOwn(builder.invertedIndex[k][2].maps, f)


-----------------------------------------------------------------------------
(* The automaton of TokenSet.fromArray                                      *)

\* corpus = TokenSet.fromArray(arr) and corpus.toArray(), nothing else built
NextArray ==
    \/ \E arr \in Vocabularies : FromArray(arr)
    \/ ToArray("corpus")

SpecArray == InitTS /\ [][NextArray]_vars

\* What a node is made of: its finality and its (label, child) pairs
Structure(n) == [final |-> heap[n].final, edges |-> Range(heap[n].edges)]

\* C16: of the nodes fromArray has made, whose children minimize has all
\* been through, two have the same key from toString if and only if they
\* have the same finality and the same (label, child) pairs
C16_KeyInjective ==
    sets.corpus # None =>
        \A m, n \in DOMAIN heap :
            (toString(heap, m) = toString(heap, n)) <=> (Structure(m) = Structure(n))

\* The nodes that can be reached from the nodes of S
RECURSIVE ReachableFrom(_)
ReachableFrom(S) ==
    IF \A n \in S : \A e \in Range(heap[n].edges) : e[2] \in S THEN S
    ELSE ReachableFrom(S \cup {e[2] : e \in UNION {Range(heap[n].edges) : n \in S}})

\* The suffixes a node accepts
Suffixes(n) == Range(toArray(heap, n))

\* C17: no two distinct nodes of the automaton of fromArray, the root
\* aside, accept the same set of suffixes
C17_Minimal ==
    sets.corpus # None =>
        \A m, n \in ReachableFrom({sets.corpus.root}) \ {sets.corpus.root} :
            m # n => Suffixes(m) # Suffixes(n)

\* Two words that differ in their first character and share the rest
\* reach one node after it
C17_Witness ==
    /\ sets.corpus # None
    /\ \E d, e \in Range(heap[sets.corpus.root].edges) :
          /\ d[1] # e[1] /\ d[2] = e[2]
          /\ heap[d[2]].edges # << >>


-----------------------------------------------------------------------------
(* A Vector filled by insert and upsert                                     *)

MaxIndex == 2        \* largest index given to insert and upsert
MaxVal == 2          \* largest value given to insert and upsert
MaxSum == 3          \* largest value a merge may leave in the vector

Indexes == 0..MaxIndex

Values == 1..MaxVal

\* new Vector(): no elements; call tells the last call and thrown whether
\* it threw
InitVector ==
    /\ nextId = 1 /\ heap = << >>
    /\ sets = [corpus |-> None, str |-> None, fuzzy |-> None, out |-> None]
    /\ words = [corpus |-> None, out |-> None]
    /\ builder = None /\ index = None /\ loaded = None /\ result = None
    /\ protoAccessor = FALSE
    /\ vector = [elements |-> << >>, thrown |-> FALSE,
                 call |-> [op |-> "new", idx |-> 0, val |-> 0]]
    /\ pipeline = None
    /\ lexer = None
    /\ parser = None
    /\ intersection = None
    /\ matches = None
    /\ queryObjects = None

\* The vector after a call that gave r
Called(r, op, i, v) ==
    /\ vector' = [elements |-> r.elements, thrown |-> r.thrown,
                  call |-> [op |-> op, idx |-> i, val |-> v]]
    /\ UNCHANGED <<nextId, heap, sets, words, builder, index, loaded, result, protoAccessor, pipeline, lexer, parser, intersection, matches, queryObjects>>

\* vector.insert(i, v)
Insert(i, v) == Called(insertElement(vector.elements, i, v), "insert", i, v)

\* vector.upsert(i, v), no function given
Upsert(i, v) == Called(upsert(vector.elements, i, v, "none"), "upsert", i, v)

\* vector.upsert(i, v, (a, b) => a + b), as LunrIndex.query calls it
UpsertSum(i, v) ==
    /\ \A k \in 1..(Len(vector.elements) \div 2) :
          vector.elements[2 * k - 1] = i => vector.elements[2 * k] + v <= MaxSum
    /\ Called(upsert(vector.elements, i, v, "sum"), "upsertSum", i, v)

NextVector ==
    \/ \E i \in Indexes, v \in Values : Insert(i, v)
    \/ \E i \in Indexes, v \in Values : Upsert(i, v)
    \/ \E i \in Indexes, v \in Values : UpsertSum(i, v)

SpecVector == InitVector /\ [][NextVector]_vars

\* Index i is in the elements
HasIndex(elements, i) ==
    \E k \in 1..(Len(elements) \div 2) : elements[2 * k - 1] = i

\* The value the elements hold for index i
ValueAt(elements, i) ==
    elements[2 * (CHOOSE k \in 1..(Len(elements) \div 2) : elements[2 * k - 1] = i)]

\* C18: the elements are (index, value) pairs, the indexes strictly
\* ascending
C18_SortedNoDuplicate ==
    /\ Len(vector.elements) % 2 = 0
    /\ \A k \in 1..((Len(vector.elements) \div 2) - 1) :
          vector.elements[2 * k - 1] < vector.elements[2 * k + 1]

\* The last call put the smallest index in front of two larger ones
C18_Witness ==
    /\ vector.call.op \in {"insert", "upsert"} /\ ~vector.thrown
    /\ Len(vector.elements) >= 6
    /\ vector.elements[1] = vector.call.idx
    /\ vector.elements[2] = vector.call.val

\* C19: insert(i, v) throws where i is in the vector and then leaves the
\* elements as they were; where i is not in the vector it stores v at i
\* and leaves the other pairs
C19_InsertDuplicate ==
    [][vector'.call.op = "insert" =>
          IF HasIndex(vector.elements, vector'.call.idx)
          THEN vector'.thrown /\ vector'.elements = vector.elements
          ELSE /\ ~vector'.thrown
               /\ HasIndex(vector'.elements, vector'.call.idx)
               /\ ValueAt(vector'.elements, vector'.call.idx) = vector'.call.val
               /\ \A j \in Indexes \ {vector'.call.idx} :
                     /\ HasIndex(vector'.elements, j) <=> HasIndex(vector.elements, j)
                     /\ HasIndex(vector.elements, j) =>
                           ValueAt(vector'.elements, j) = ValueAt(vector.elements, j)]_vars

\* An insert has thrown on a vector that holds its index
C19_Witness ==
    /\ vector.call.op = "insert" /\ vector.thrown
    /\ HasIndex(vector.elements, vector.call.idx)
    /\ ValueAt(vector.elements, vector.call.idx) # vector.call.val

\* C20: upsert(i, v) without a function, on a vector that holds i, leaves
\* the value of i plus v at i
C20_UpsertDefaultSums ==
    [][(vector'.call.op = "upsert" /\ HasIndex(vector.elements, vector'.call.idx)) =>
          ValueAt(vector'.elements, vector'.call.idx)
              = ValueAt(vector.elements, vector'.call.idx) + vector'.call.val]_vars


-----------------------------------------------------------------------------
(* Pipeline.run, call by call                                               *)

MaxStack == 2        \* most functions added to the pipeline
MaxTokens == 6       \* most tokens given to Pipeline.run

\* What a pipeline function returns: undefined, null, a string (or token)
\* or an array of them
Undefined == [kind |-> "undefined"]

Null == [kind |-> "null"]

Str(s) == [kind |-> "string", str |-> s]

Arr(items) == [kind |-> "array", items |-> items]

\* t => t.toString().toUpperCase(), a function of the tests of Pipeline.run
upperCaseFunction == [label |-> "upperCaseFunction"]

\* The function of the test 'filters out null, undefined and empty string
\* values': null at index 4, '' at index 5, the token at the other odd
\* indexes and undefined at the other even ones
indexFilter == [label |-> "indexFilter"]

\* The functions a pipeline is made of
PipelineFunctions == {stopWordFilter, expandingFunction, upperCaseFunction, indexFilter}

\* fn(tokens[j], j, tokens), j counted from 0
callFn(fn, token, j) ==
    CASE fn.label = "stopWordFilter" ->
            IF token \in StopWords THEN Undefined ELSE Str(token)
      [] fn.label = "expandingFunction" -> Arr(<<token, toUpperCase(token)>>)
      [] fn.label = "upperCaseFunction" -> Str(toUpperCase(token))
      [] fn.label = "indexFilter" ->
            IF j = 4 THEN Null
            ELSE IF j = 5 THEN Str(<< >>)
            ELSE IF j % 2 = 1 THEN Str(token)
            ELSE Undefined

\* memo after the result of one call, the empty string pushed like any
\* other string
memoPush_Empty(memo, r) ==
    IF r.kind = "null" \/ r.kind = "undefined" THEN memo
    ELSE IF r.kind = "array" THEN memo \o r.items
    ELSE Append(memo, r.str)

\* memo after the result of one call: nothing for null, undefined and '',
\* the elements of an array, the result itself otherwise
memoPush(memo, r) ==
    IF r.kind = "null" \/ r.kind = "undefined" \/ (r.kind = "string" /\ r.str = << >>)
    THEN memo
    ELSE IF r.kind = "array" THEN memo \o r.items
    ELSE Append(memo, r.str)

\* The loop of Pipeline.run over the tokens of one stage, from tokens[j]
\* on (j counted from 1); st holds memo and the calls made so far
RECURSIVE runTokens(_, _, _, _, _)
runTokens(stack, i, tokens, j, st) ==
    IF j > Len(tokens) THEN st
    ELSE runTokens(stack, i, tokens, j + 1,
            [memo |-> memoPush(st.memo, callFn(stack[i], tokens[j], j - 1)),
             calls |-> Append(st.calls, [stage |-> i, token |-> tokens[j], idx |-> j - 1])])

\* The loop of Pipeline.run over the stack, from stack[i] on
RECURSIVE runStack(_, _, _, _)
runStack(stack, i, tokens, calls) ==
    IF i > Len(stack) THEN [output |-> tokens, calls |-> calls]
    ELSE LET st == runTokens(stack, i, tokens, 1, [memo |-> << >>, calls |-> calls])
         IN runStack(stack, i + 1, st.memo, st.calls)

\* The tokens given to Pipeline.run: up to MaxTokens tokens, one term
\* repeated or the two terms in turn
TokenLists ==
    {[k \in 1..n |-> w[((k - 1) % Len(w)) + 1]] :
        w \in {<<TermA>>, <<TermB>>, <<TermA, TermB>>, <<TermB, TermA>>}, n \in 0..MaxTokens}

\* new Pipeline()
InitPipeline ==
    /\ nextId = 1 /\ heap = << >>
    /\ sets = [corpus |-> None, str |-> None, fuzzy |-> None, out |-> None]
    /\ words = [corpus |-> None, out |-> None]
    /\ builder = None /\ index = None /\ loaded = None /\ result = None
    /\ protoAccessor = FALSE
    /\ vector = None
    /\ pipeline = [stack |-> << >>, ran |-> FALSE, input |-> << >>,
                   output |-> << >>, calls |-> << >>]
    /\ lexer = None
    /\ parser = None
    /\ intersection = None
    /\ matches = None
    /\ queryObjects = None

\* pipeline.add(fn)
AddFunction(fn) ==
    /\ Len(pipeline.stack) < MaxStack
    /\ pipeline' = [stack |-> Append(pipeline.stack, fn), ran |-> FALSE,
                    input |-> << >>, output |-> << >>, calls |-> << >>]
    /\ UNCHANGED <<nextId, heap, sets, words, builder, index, loaded, result, protoAccessor, vector, lexer, parser, intersection, matches, queryObjects>>

\* pipeline.run(tokens)
Run(tokens) ==
    /\ LET r == runStack(pipeline.stack, 1, tokens, << >>)
       IN pipeline' = [stack |-> pipeline.stack, ran |-> TRUE, input |-> tokens,
                       output |-> r.output, calls |-> r.calls]
    /\ UNCHANGED <<nextId, heap, sets, words, builder, index, loaded, result, protoAccessor, vector, lexer, parser, intersection, matches, queryObjects>>

NextPipeline ==
    \/ \E fn \in PipelineFunctions : AddFunction(fn)
    \/ \E tokens \in TokenLists : Run(tokens)

SpecPipeline == InitPipeline /\ [][NextPipeline]_vars

\* The calls of the last run made on the function of stage i
CallsOf(i) == SelectSeq(pipeline.calls, LAMBDA c : c.stage = i)

\* What the function of a call returned
ResultOf(c) == callFn(pipeline.stack[c.stage], c.token, c.idx)

\* Whether a call returned null, undefined or the empty string
Dropped(c) ==
    \/ ResultOf(c).kind \in {"null", "undefined"}
    \/ ResultOf(c).kind = "string" /\ ResultOf(c).str = << >>

\* The tokens a sequence of calls hands to the next stage
RECURSIVE HandedOn(_)
HandedOn(cs) ==
    IF cs = << >> THEN << >>
    ELSE LET c == Head(cs)
         IN (IF Dropped(c) THEN << >>
             ELSE IF ResultOf(c).kind = "array" THEN ResultOf(c).items
             ELSE <<ResultOf(c).str>>) \o HandedOn(Tail(cs))

\* C21: the calls of a run go through the stack in order; the function of
\* the first stage is called once for each token given, in order, and the
\* function of each later stage once for each token the calls of the stage
\* before handed on, arrays flattened and null, undefined and '' left out;
\* the output is what the calls of the last stage handed on
C21_StageByStage ==
    pipeline.ran =>
        /\ \A k \in 1..(Len(pipeline.calls) - 1) :
              pipeline.calls[k].stage <= pipeline.calls[k + 1].stage
        /\ \A k \in 1..Len(pipeline.calls) :
              pipeline.calls[k].stage \in 1..Len(pipeline.stack)
        /\ \A i \in 1..Len(pipeline.stack) :
              LET given == IF i = 1 THEN pipeline.input ELSE HandedOn(CallsOf(i - 1))
              IN /\ Len(CallsOf(i)) = Len(given)
                 /\ \A j \in 1..Len(given) :
                       CallsOf(i)[j].token = given[j] /\ CallsOf(i)[j].idx = j - 1
        /\ pipeline.output = IF pipeline.stack = << >> THEN pipeline.input
                             ELSE HandedOn(CallsOf(Len(pipeline.stack)))

\* A run of two functions whose first returned null for one token, '' for
\* another and undefined for a third, and whose second returned an array
C21_Witness ==
    /\ pipeline.ran /\ Len(pipeline.stack) = 2
    /\ \E c \in Range(CallsOf(1)) : ResultOf(c).kind = "null"
    /\ \E c \in Range(CallsOf(1)) : ResultOf(c).kind = "undefined"
    /\ \E c \in Range(CallsOf(1)) : ResultOf(c).kind = "string" /\ ResultOf(c).str = << >>
    /\ \E c \in Range(CallsOf(2)) : ResultOf(c).kind = "array"
    /\ Len(pipeline.output) > Len(CallsOf(2))


-----------------------------------------------------------------------------
(* QueryLexer                                                               *)

MaxQuery == 3        \* longest query string given to the lexer

\* What QueryLexer.next returns at the end of the string
EOS == "EOS"

\* The characters query strings are made of: a letter, a digit, the field,
\* edit distance, boost and presence marks, a blank and the escape
\* character
QueryChars == {"a", "1", ":", "~", "^", "+", "-", " ", "\\"}

\* The query strings given to the lexer
QueryStrings == UNION {[1..n -> QueryChars] : n \in 0..MaxQuery}

\* str.slice(from, to) for 0 <= from, positions counted from 0
slice(str, from, to) ==
    LET last == IF to < Len(str) THEN to ELSE Len(str)
    IN IF from >= last THEN << >> ELSE SubSeq(str, from + 1, last)

\* new QueryLexer(str)
QueryLexer(str) ==
    [str |-> str, length |-> Len(str), pos |-> 0, start |-> 0,
     escapeCharPositions |-> << >>, lexemes |-> << >>, state |-> "lexText"]

\* The loop of QueryLexer.sliceString over escapeCharPositions, from the
\* i-th on
RECURSIVE sliceLoop(_, _, _, _)
sliceLoop(lx, i, sliceStart, subSlices) ==
    IF i > Len(lx.escapeCharPositions)
    THEN subSlices \o slice(lx.str, sliceStart, lx.pos)
    ELSE sliceLoop(lx, i + 1, lx.escapeCharPositions[i] + 1,
                   subSlices \o slice(lx.str, sliceStart, lx.escapeCharPositions[i]))

\* QueryLexer.sliceString(): the string, and the lexer with its escape
\* positions forgotten
sliceString(lx) == sliceLoop(lx, 1, lx.start, << >>)

\* QueryLexer.emit(type)
emit(lx, type) ==
    [lx EXCEPT !.lexemes = Append(@, [type |-> type, str |-> sliceString(lx),
                                      start |-> lx.start, end |-> lx.pos]),
               !.escapeCharPositions = << >>,
               !.start = lx.pos]

\* QueryLexer.escapeCharacter()
escapeCharacter(lx) ==
    [lx EXCEPT !.escapeCharPositions = Append(@, lx.pos - 1), !.pos = @ + 1]

\* QueryLexer.next(): the character returned and the lexer after it
next(lx) ==
    IF lx.pos >= lx.length THEN [char |-> EOS, lx |-> lx]
    ELSE [char |-> lx.str[lx.pos + 1], lx |-> [lx EXCEPT !.pos = @ + 1]]

\* QueryLexer.width()
width(lx) == lx.pos - lx.start

\* QueryLexer.ignore()
ignore(lx) ==
    LET skipped == IF lx.start = lx.pos THEN [lx EXCEPT !.pos = @ + 1] ELSE lx
    IN [skipped EXCEPT !.start = skipped.pos]

\* QueryLexer.backup()
backup(lx) == [lx EXCEPT !.pos = @ - 1]

\* QueryLexer.acceptDigitRun()
RECURSIVE acceptDigitRun(_)
acceptDigitRun(lx) ==
    LET n == next(lx)
    IN IF n.char # EOS /\ IsDigit(n.char) THEN acceptDigitRun(n.lx)
       ELSE IF n.char # EOS THEN backup(n.lx)
       ELSE n.lx

\* QueryLexer.more()
more(lx) == lx.pos < lx.length

\* char.match(QueryLexer.termSeparator), the separator /[\s\-]+/
IsSeparator(char) == char \in {" ", "-"}

\* A lexField that only steps back to the ':'
lexField_Backup(lx) == [backup(lx) EXCEPT !.state = "lexText"]

\* QueryLexer.lexField
lexField(lx) == [ignore(emit(backup(lx), "FIELD")) EXCEPT !.state = "lexText"]

\* QueryLexer.lexTerm
lexTerm(lx) ==
    LET emitted == IF width(lx) > 1 THEN emit(backup(lx), "TERM") ELSE lx
        ignored == ignore(emitted)
    IN [ignored EXCEPT !.state = IF more(ignored) THEN "lexText" ELSE "done"]

\* QueryLexer.lexEditDistance
lexEditDistance(lx) ==
    [emit(acceptDigitRun(ignore(lx)), "EDIT_DISTANCE") EXCEPT !.state = "lexText"]

\* QueryLexer.lexBoost
lexBoost(lx) ==
    [emit(acceptDigitRun(ignore(lx)), "BOOST") EXCEPT !.state = "lexText"]

\* QueryLexer.lexEOS
lexEOS(lx) ==
    [(IF width(lx) > 0 THEN emit(lx, "TERM") ELSE lx) EXCEPT !.state = "done"]

\* A term that ends before '~' or '^': backup, and emit where it has width
beforeModifier(lx, state) ==
    LET b == backup(lx)
    IN [(IF width(b) > 0 THEN emit(b, "TERM") ELSE b) EXCEPT !.state = state]

\* One turn of the loop of QueryLexer.lexText: the lexer stays in lexText
\* where the loop continues
lexText(lx) ==
    LET n == next(lx)
        char == n.char
    IN IF char = EOS THEN [n.lx EXCEPT !.state = "lexEOS"]
       ELSE IF char = "\\" THEN escapeCharacter(n.lx)
       ELSE IF char = ":" THEN [n.lx EXCEPT !.state = "lexField"]
       ELSE IF char = "~" THEN beforeModifier(n.lx, "lexEditDistance")
       ELSE IF char = "^" THEN beforeModifier(n.lx, "lexBoost")
       ELSE IF char \in {"+", "-"} /\ width(n.lx) = 1 THEN emit(n.lx, "PRESENCE")
       ELSE IF IsSeparator(char) THEN [n.lx EXCEPT !.state = "lexTerm"]
       ELSE n.lx

\* state(this), one call of the loop of QueryLexer.run
stateFunction(lx) ==
    CASE lx.state = "lexText" -> lexText(lx)
      [] lx.state = "lexField" -> lexField(lx)
      [] lx.state = "lexTerm" -> lexTerm(lx)
      [] lx.state = "lexEditDistance" -> lexEditDistance(lx)
      [] lx.state = "lexBoost" -> lexBoost(lx)
      [] lx.state = "lexEOS" -> lexEOS(lx)

\* A lexer made for any of the query strings, run() not yet called
InitLexer ==
    /\ nextId = 1 /\ heap = << >>
    /\ sets = [corpus |-> None, str |-> None, fuzzy |-> None, out |-> None]
    /\ words = [corpus |-> None, out |-> None]
    /\ builder = None /\ index = None /\ loaded = None /\ result = None
    /\ protoAccessor = FALSE
    /\ vector = None
    /\ pipeline = None
    /\ \E str \in QueryStrings : lexer = QueryLexer(str)
    /\ parser = None
    /\ intersection = None
    /\ matches = None
    /\ queryObjects = None

\* The lexer after the state function st
Lexed(st) ==
    /\ lexer.state = st
    /\ lexer' = stateFunction(lexer)
    /\ UNCHANGED <<nextId, heap, sets, words, builder, index, loaded, result, protoAccessor, vector, pipeline, parser, intersection, matches, queryObjects>>

LexText == Lexed("lexText")
LexField == Lexed("lexField")
LexTerm == Lexed("lexTerm")
LexEditDistance == Lexed("lexEditDistance")
LexBoost == Lexed("lexBoost")
LexEOS == Lexed("lexEOS")

NextLexer ==
    \/ LexText
    \/ LexField
    \/ LexTerm
    \/ LexEditDistance
    \/ LexBoost
    \/ LexEOS

SpecLexer == InitLexer /\ [][NextLexer]_vars

\* The loop of run() goes on while there is a state function to call
SpecLexerFair == SpecLexer /\ WF_vars(NextLexer)

\* C27: every lexeme lies in the string, 0 <= start <= end <= length, and
\* starts at or after the end of the lexeme before it
C27_LexemeOffsets ==
    /\ \A k \in 1..Len(lexer.lexemes) :
          /\ 0 <= lexer.lexemes[k].start
          /\ lexer.lexemes[k].start <= lexer.lexemes[k].end
          /\ lexer.lexemes[k].end <= lexer.length
    /\ \A k \in 1..(Len(lexer.lexemes) - 1) :
          lexer.lexemes[k].end <= lexer.lexemes[k + 1].start

\* C28: run() comes to its end on every query string: a turn of the loop
\* of lexText moves pos forward or leaves lexText, and every other state
\* function that hands back to lexText has moved start forward
C28_Terminates ==
    /\ <>(lexer.state = "done")
    /\ [][/\ (lexer.state = "lexText" /\ lexer'.state = "lexText") => lexer'.pos > lexer.pos
          /\ (lexer.state # "lexText" /\ lexer'.state = "lexText") =>
                (lexer'.start > lexer.start /\ lexer'.pos >= lexer.pos)]_vars

\* run() has ended on a string of several lexemes, having gone through
\* lexText again after another state function
C28_Witness ==
    /\ lexer.state = "done"
    /\ lexer.length = MaxQuery
    /\ Len(lexer.lexemes) >= 2
    /\ \E k \in 1..Len(lexer.lexemes) : lexer.lexemes[k].type \in {"EDIT_DISTANCE", "BOOST", "FIELD"}


-----------------------------------------------------------------------------
(* QueryParser                                                              *)

MaxParts == 3        \* most parts a query string given to the parser has

\* QueryLexer.run()
RECURSIVE lexerRun(_)
lexerRun(lx) == IF lx.state = "done" THEN lx ELSE lexerRun(stateFunction(lx))

\* What parseInt gives for a string that does not start with a digit
NaN == [nan |-> TRUE, value |-> 0]

\* The digit c as a number
DigitValue(c) == (CHOOSE i \in 1..10 : DigitChars[i] = c) - 1

\* parseInt(str, 10) from the i-th character on, n the value so far
RECURSIVE parseDigits(_, _, _)
parseDigits(str, i, n) ==
    IF i > Len(str) \/ ~IsDigit(str[i]) THEN n
    ELSE parseDigits(str, i + 1, 10 * n + DigitValue(str[i]))

\* parseInt(str, 10) for a string without sign and blanks
parseInt(str) ==
    IF str = << >> \/ ~IsDigit(str[1]) THEN NaN
    ELSE [nan |-> FALSE, value |-> parseDigits(str, 1, 0)]

\* str.toLowerCase()
toLowerCase(str) ==
    [i \in 1..Len(str) |-> CASE str[i] = "A" -> "a"
                             [] str[i] = "B" -> "b"
                             [] OTHER -> str[i]]

\* new QueryParser(str, query)
QueryParser(str, q) ==
    [lexer |-> QueryLexer(str), lexemes |-> << >>, lexemeIdx |-> 0,
     currentClause |-> << >>, query |-> q, state |-> "parse", error |-> None]

\* QueryParser.peekLexeme(): None for undefined
peekLexeme(p) ==
    IF p.lexemeIdx < Len(p.lexemes) THEN p.lexemes[p.lexemeIdx + 1] ELSE None

\* QueryParser.consumeLexeme(): the parser after it
consumeLexeme(p) == [p EXCEPT !.lexemeIdx = @ + 1]

\* A nextClause that goes on with the clause it submitted
nextClause_Keep(p) == [p EXCEPT !.query = clause(@, p.currentClause)]

\* QueryParser.nextClause()
nextClause(p) ==
    [p EXCEPT !.query = clause(@, p.currentClause), !.currentClause = << >>]

\* throw new QueryParseError(message, start, end)
QueryParseError(p, lexeme) ==
    [p EXCEPT !.state = "thrown",
              !.error = [start |-> lexeme.start, end |-> lexeme.end]]

\* The parser with a property of its current clause set
setClause(p, key, v) == [p EXCEPT !.currentClause = SetProperty(@, key, v)]

\* The start of QueryParser.parse(): the lexer run, its lexemes taken
parseStart(p) ==
    LET lx == lexerRun(p.lexer)
    IN [p EXCEPT !.lexer = lx, !.lexemes = lx.lexemes, !.state = "parseClause"]

\* QueryParser.parseClause
parseClause(p) ==
    LET lexeme == peekLexeme(p)
    IN IF lexeme = None THEN [p EXCEPT !.state = "done"]
       ELSE CASE lexeme.type = "PRESENCE" -> [p EXCEPT !.state = "parsePresence"]
              [] lexeme.type = "FIELD" -> [p EXCEPT !.state = "parseField"]
              [] lexeme.type = "TERM" -> [p EXCEPT !.state = "parseTerm"]
              [] OTHER -> QueryParseError(p, lexeme)

\* QueryParser.parsePresence
parsePresence(p) ==
    LET lexeme == peekLexeme(p)
        c == consumeLexeme(p)
        nextLexeme == peekLexeme(c)
        set == setClause(c, "presence", IF lexeme.str = <<"-">> THEN PROHIBITED ELSE REQUIRED)
    IN IF lexeme = None THEN [c EXCEPT !.state = "done"]
       ELSE IF lexeme.str \notin {<<"-">>, <<"+">>} THEN QueryParseError(c, lexeme)
       ELSE IF nextLexeme = None THEN QueryParseError(set, lexeme)
       ELSE CASE nextLexeme.type = "FIELD" -> [set EXCEPT !.state = "parseField"]
              [] nextLexeme.type = "TERM" -> [set EXCEPT !.state = "parseTerm"]
              [] OTHER -> QueryParseError(set, nextLexeme)

\* A parseField that takes any field name
parseField_AnyField(p) ==
    LET lexeme == peekLexeme(p)
        c == consumeLexeme(p)
        nextLexeme == peekLexeme(c)
        set == setClause(c, "fields", <<lexeme.str>>)
    IN IF nextLexeme = None THEN QueryParseError(set, lexeme)
       ELSE CASE nextLexeme.type = "TERM" -> [set EXCEPT !.state = "parseTerm"]
              [] OTHER -> QueryParseError(set, nextLexeme)

\* QueryParser.parseField
parseField(p) ==
    LET lexeme == peekLexeme(p)
        c == consumeLexeme(p)
        nextLexeme == peekLexeme(c)
        set == setClause(c, "fields", <<lexeme.str>>)
    IN IF lexeme = None THEN [c EXCEPT !.state = "done"]
       ELSE IF lexeme.str \notin Range(p.query.allFields) THEN QueryParseError(c, lexeme)
       ELSE IF nextLexeme = None THEN QueryParseError(set, lexeme)
       ELSE CASE nextLexeme.type = "TERM" -> [set EXCEPT !.state = "parseTerm"]
              [] OTHER -> QueryParseError(set, nextLexeme)

\* The end of parseTerm, parseEditDistance and parseBoost: the clause
\* submitted, or the parser sent on, by the lexeme that follows
afterLexeme(p) ==
    LET nextLexeme == peekLexeme(p)
    IN IF nextLexeme = None THEN [nextClause(p) EXCEPT !.state = "done"]
       ELSE CASE nextLexeme.type = "TERM" -> [nextClause(p) EXCEPT !.state = "parseTerm"]
              [] nextLexeme.type = "FIELD" -> [nextClause(p) EXCEPT !.state = "parseField"]
              [] nextLexeme.type = "EDIT_DISTANCE" -> [p EXCEPT !.state = "parseEditDistance"]
              [] nextLexeme.type = "BOOST" -> [p EXCEPT !.state = "parseBoost"]
              [] nextLexeme.type = "PRESENCE" -> [nextClause(p) EXCEPT !.state = "parsePresence"]
              [] OTHER -> QueryParseError(p, nextLexeme)

\* QueryParser.parseTerm
parseTerm(p) ==
    LET lexeme == peekLexeme(p)
        c == consumeLexeme(p)
        term == setClause(c, "term", toLowerCase(lexeme.str))
    IN IF lexeme = None THEN [c EXCEPT !.state = "done"]
       ELSE afterLexeme(IF \E i \in 1..Len(lexeme.str) : lexeme.str[i] = "*"
                        THEN setClause(term, "usePipeline", FALSE)
                        ELSE term)

\* QueryParser.parseEditDistance
parseEditDistance(p) ==
    LET lexeme == peekLexeme(p)
        c == consumeLexeme(p)
    IN IF lexeme = None THEN [c EXCEPT !.state = "done"]
       ELSE IF parseInt(lexeme.str) = NaN THEN QueryParseError(c, lexeme)
       ELSE afterLexeme(setClause(c, "editDistance", parseInt(lexeme.str).value))

\* QueryParser.parseBoost
parseBoost(p) ==
    LET lexeme == peekLexeme(p)
        c == consumeLexeme(p)
    IN IF lexeme = None THEN [c EXCEPT !.state = "done"]
       ELSE IF parseInt(lexeme.str) = NaN THEN QueryParseError(c, lexeme)
       ELSE afterLexeme(setClause(c, "boost", parseInt(lexeme.str).value))

\* state(this), one call of the loop of QueryParser.parse
parserState(p) ==
    CASE p.state = "parse" -> parseStart(p)
      [] p.state = "parseClause" -> parseClause(p)
      [] p.state = "parsePresence" -> parsePresence(p)
      [] p.state = "parseField" -> parseField(p)
      [] p.state = "parseTerm" -> parseTerm(p)
      [] p.state = "parseEditDistance" -> parseEditDistance(p)
      [] p.state = "parseBoost" -> parseBoost(p)

\* The parts query strings are made of: terms, a blank and a second term,
\* a field of the query and one that is not, presence marks, and edit
\* distance and boost with a value and without
QueryParts ==
    {<<"a">>, <<" ", "b">>, <<"t", ":">>, <<"x", ":">>, <<"+">>, <<"-">>,
     <<"~", "1">>, <<"~">>, <<"^", "2">>, <<"^">>}

\* The strings of up to n parts
RECURSIVE PartStrings(_)
PartStrings(n) ==
    IF n = 0 THEN {<< >>}
    ELSE PartStrings(n - 1) \cup {s \o part : s \in PartStrings(n - 1), part \in QueryParts}

\* A parser made for a query string and a query of one field, parse() not
\* yet called
InitParser ==
    /\ nextId = 1 /\ heap = << >>
    /\ sets = [corpus |-> None, str |-> None, fuzzy |-> None, out |-> None]
    /\ words = [corpus |-> None, out |-> None]
    /\ builder = None /\ index = None /\ loaded = None /\ result = None
    /\ protoAccessor = FALSE
    /\ vector = None
    /\ pipeline = None
    /\ lexer = None
    /\ \E str \in PartStrings(MaxParts) : parser = QueryParser(str, Query(<<FieldT>>))
    /\ intersection = None
    /\ matches = None
    /\ queryObjects = None

\* The parser after the step st of parse()
Parsed(st) ==
    /\ parser.state = st
    /\ parser' = parserState(parser)
    /\ UNCHANGED <<nextId, heap, sets, words, builder, index, loaded, result, protoAccessor, vector, pipeline, lexer, intersection, matches, queryObjects>>

Parse == Parsed("parse")
ParseClause == Parsed("parseClause")
ParsePresence == Parsed("parsePresence")
ParseField == Parsed("parseField")
ParseTerm == Parsed("parseTerm")
ParseEditDistance == Parsed("parseEditDistance")
ParseBoost == Parsed("parseBoost")

NextParser ==
    \/ Parse
    \/ ParseClause
    \/ ParsePresence
    \/ ParseField
    \/ ParseTerm
    \/ ParseEditDistance
    \/ ParseBoost

SpecParser == InitParser /\ [][NextParser]_vars


\* parse() has come to its end, by return or by throw
ParseEnded == parser.state \in {"done", "thrown"}

\* The type of the k-th lexeme, "none" past the last
TypeAt(k) ==
    IF k \in 1..Len(parser.lexemes) THEN parser.lexemes[k].type ELSE "none"

\* The k-th lexeme is one the query string is wrong by: a field without a
\* term after it or not among the fields of the query, a presence mark
\* without a term or field after it, an edit distance or boost that does
\* not follow a term or a modifier of a term, or one without a number
Offending(k) ==
    \/ TypeAt(k) = "FIELD" /\ TypeAt(k + 1) # "TERM"
    \/ TypeAt(k) = "FIELD" /\ parser.lexemes[k].str \notin Range(parser.query.allFields)
    \/ TypeAt(k) = "PRESENCE" /\ TypeAt(k + 1) \notin {"TERM", "FIELD"}
    \/ TypeAt(k) \in {"EDIT_DISTANCE", "BOOST"}
          /\ TypeAt(k - 1) \notin {"TERM", "EDIT_DISTANCE", "BOOST"}
    \/ TypeAt(k) \in {"EDIT_DISTANCE", "BOOST"} /\ parseInt(parser.lexemes[k].str) = NaN

\* The error thrown carries the offsets of the k-th lexeme
ErrorAt(k) ==
    /\ k \in 1..Len(parser.lexemes)
    /\ parser.error = [start |-> parser.lexemes[k].start, end |-> parser.lexemes[k].end]

TermPositions ==
    SelectSeq([k \in 1..Len(parser.lexemes) |-> k], LAMBDA k : TypeAt(k) = "TERM")

\* The positions of the edit distances and boosts written on the term at
\* position i: those that follow it with nothing else in between
ModifiersOf(i) ==
    {j \in (i + 1)..Len(parser.lexemes) :
        \A k \in (i + 1)..j : TypeAt(k) \in {"EDIT_DISTANCE", "BOOST"}}

\* The value of the last modifier of a type written on the term at i
LastValue(i, type) ==
    LET js == {j \in ModifiersOf(i) : TypeAt(j) = type}
        last == CHOOSE j \in js : \A k \in js : k <= j
    IN parseInt(parser.lexemes[last].str).value

\* The clause the term at position i is to give by what is written on it
ClauseWritten(i) ==
    LET fieldAt == IF TypeAt(i - 1) = "FIELD" THEN i - 1 ELSE i
        markAt == fieldAt - 1
        plain ==
            [term |-> toLowerCase(parser.lexemes[i].str),
             fields |-> IF fieldAt < i THEN <<parser.lexemes[fieldAt].str>>
                        ELSE parser.query.allFields,
             presence |-> IF TypeAt(markAt) # "PRESENCE" THEN OPTIONAL
                          ELSE IF parser.lexemes[markAt].str = <<"+">> THEN REQUIRED
                          ELSE PROHIBITED,
             boost |-> IF \E j \in ModifiersOf(i) : TypeAt(j) = "BOOST"
                       THEN LastValue(i, "BOOST") ELSE 1,
             usePipeline |-> TRUE,
             wildcard |-> NONE]
    IN IF \E j \in ModifiersOf(i) : TypeAt(j) = "EDIT_DISTANCE"
       THEN SetProperty(plain, "editDistance", LastValue(i, "EDIT_DISTANCE"))
       ELSE plain

\* Two clauses have the same properties with the same values
SameClause(c, d) == DOMAIN c = DOMAIN d /\ \A k \in DOMAIN c : c[k] = d[k]

\* C25: where parse() returns, the query has one clause for each TERM
\* lexeme, in order, each with the presence, field, boost and edit
\* distance written on its term and the defaults for the rest
C25_ClausePerTerm ==
    parser.state = "done" =>
        /\ Len(parser.query.clauses) = Len(TermPositions)
        /\ \A n \in 1..Len(TermPositions) :
              SameClause(parser.query.clauses[n], ClauseWritten(TermPositions[n]))

\* parse() has returned two clauses, the first with a presence, a field, a
\* boost or an edit distance of its own, the second with the defaults
C25_Witness ==
    /\ parser.state = "done"
    /\ Len(parser.query.clauses) = 2
    /\ \/ parser.query.clauses[1].presence # OPTIONAL
       \/ parser.query.clauses[1].boost # 1
       \/ "editDistance" \in DOMAIN parser.query.clauses[1]
       \/ parser.query.clauses[1].fields = <<FieldT>>
    /\ SameClause(parser.query.clauses[2],
                  [term |-> TermB, fields |-> parser.query.allFields, presence |-> OPTIONAL,
                   boost |-> 1, usePipeline |-> TRUE, wildcard |-> NONE])


-----------------------------------------------------------------------------
(* The order of the results                                                 *)

C30_EmptyQueryReturnsAll ==
    (Queried /\ Clauses = << >>) =>
        /\ isNegated(result.built)
        /\ ~result.built.thrown
        /\ Returned = {d.ref : d \in IndexedDocs}
        /\ Len(result.built.results) = Cardinality(Returned)
        /\ \A k \in 1..Len(result.built.results) : result.built.results[k].score = 0


-----------------------------------------------------------------------------
(* TokenSet.intersect, frame by frame                                       *)

MaxWord == 3         \* longest word of the receiver of an intersection
MaxStars == 3        \* longest pattern of the argument of an intersection

\* The words the receiver is made of
ReceiverWords == StringsOver(Letters, 0, MaxWord)

\* The patterns the argument is made of: a letter and '*' in any order
StarPatterns == StringsOver({"a", "*"}, 0, MaxStars)

InitIntersect ==
    /\ nextId = 1 /\ heap = << >>
    /\ sets = [corpus |-> None, str |-> None, fuzzy |-> None, out |-> None]
    /\ words = [corpus |-> None, out |-> None]
    /\ builder = None /\ index = None /\ loaded = None /\ result = None
    /\ protoAccessor = FALSE
    /\ vector = None
    /\ pipeline = None
    /\ lexer = None
    /\ parser = None
    /\ intersection = None
    /\ matches = None
    /\ queryObjects = None

\* x = TokenSet.fromString(w), the receiver
Receiver(w) ==
    /\ sets.corpus = None
    /\ Keep(fromString(heap, nextId, w), "corpus", [arr |-> <<w>>])
    /\ UNCHANGED intersection

\* y = TokenSet.fromString(p), the argument
Argument(p) ==
    /\ sets.corpus # None /\ sets.str = None
    /\ Keep(fromString(heap, nextId, p), "str", [str |-> p])
    /\ UNCHANGED intersection

\* x.intersect(y) up to its loop: the output made, the first frame pushed
IntersectStart ==
    /\ sets.corpus # None /\ sets.str # None /\ intersection = None
    /\ heap' = Alloc(heap, nextId)
    /\ nextId' = nextId + 1
    /\ intersection' = [state |-> "running", output |-> nextId,
                        stack |-> <<[qNode |-> sets.str.root, output |-> nextId,
                                     node |-> sets.corpus.root]>>]
    /\ UNCHANGED <<sets, words, builder, index, loaded, result, protoAccessor, vector, pipeline, lexer, parser, matches, queryObjects>>

\* One turn of the loop of intersect: the top frame popped, a frame pushed
\* for every pair of edges admitted
IntersectFrame ==
    /\ intersection # None /\ intersection.state = "running"
    /\ intersection.stack # << >>
    /\ LET frame == intersection.stack[Len(intersection.stack)]
           r == intersectPairs(heap, nextId,
                    SubSeq(intersection.stack, 1, Len(intersection.stack) - 1), frame,
                    admitted(ObjectKeys(heap[frame.qNode].edges),
                             ObjectKeys(heap[frame.node].edges)))
       IN /\ heap' = r.heap
          /\ nextId' = r.nextId
          /\ intersection' = [intersection EXCEPT !.stack = r.stack]
    /\ UNCHANGED <<sets, words, builder, index, loaded, result, protoAccessor, vector, pipeline, lexer, parser, matches, queryObjects>>

\* The end of intersect: the stack is empty, the output returned
IntersectReturn ==
    /\ intersection # None /\ intersection.state = "running"
    /\ intersection.stack = << >>
    /\ intersection' = [intersection EXCEPT !.state = "returned"]
    /\ sets' = [sets EXCEPT !.out = [root |-> intersection.output, a |-> "corpus", b |-> "str"]]
    /\ UNCHANGED <<nextId, heap, words, builder, index, loaded, result, protoAccessor, vector, pipeline, lexer, parser, matches, queryObjects>>

NextIntersect ==
    \/ \E w \in ReceiverWords : Receiver(w)
    \/ \E p \in StarPatterns : Argument(p)
    \/ IntersectStart
    \/ IntersectFrame
    \/ IntersectReturn

SpecIntersect == InitIntersect /\ [][NextIntersect]_vars

\* The loop of intersect goes on while there is a frame on the stack
SpecIntersectFair == SpecIntersect /\ WF_vars(IntersectFrame) /\ WF_vars(IntersectReturn)

\* The nodes the edges of node n lead to
Children(n) == {e[2] : e \in Range(heap[n].edges)}

\* No node that can be reached from root can be reached from itself
Acyclic(root) ==
    \A n \in ReachableFrom({root}) : n \notin ReachableFrom(Children(n))

Running == intersection # None /\ intersection.state = "running"

HasReturned == intersection # None /\ intersection.state = "returned"

\* C26: an intersect whose receiver has no cycle comes to its end, and the
\* automaton it returns has no cycle and accepts the finitely many words
\* toArray lists
C26_IntersectTerminates ==
    /\ (Running /\ Acyclic(sets.corpus.root)) ~> HasReturned
    /\ [](HasReturned => Acyclic(sets.out.root))

\* An intersect has returned, its argument having two '*' with self-loops
\* that can stand for many parts of the receiver's longest word
C26_Witness ==
    /\ HasReturned
    /\ Len(sets.corpus.arr[1]) = MaxWord
    /\ Cardinality({i \in 1..Len(sets.str.str) : sets.str.str[i] = "*"}) >= 2
    /\ \E n \in ReachableFrom({sets.str.root}) : n \in Children(n)
    /\ toArray(heap, sets.out.root) # << >>

-----------------------------------------------------------------------------
(* MatchData over the objects it is given                                   *)

\* Metadata is an object of arrays. Objects and arrays are kept in a store,
\* by identity: a match data and its caller may hold the same one.

MaxInstances == 2

MaxObjects == 8

MaxItems == 2

Obj(props) == [kind |-> "object", props |-> props, items |-> << >>]

ArrayOf(items) == [kind |-> "array", props |-> << >>, items |-> items]

\* What the callers own, as LunrIndex.query owns fieldPosting[ref]: the
\* metadata {position: [1]}, {position: [2]} and {}
CallerObjects ==
    <<ArrayOf(<<1>>), Obj(<< <<"position", 1>> >>),
      ArrayOf(<<2>>), Obj(<< <<"position", 3>> >>),
      Obj(<< >>)>>

CallerMetadata == {2, 4, 5}

\* Array#slice()
sliceArray(objects, a) == Append(objects, ArrayOf(objects[a].items))

\* Array#concat(b)
concatArray(objects, a, b) ==
    Append(objects, ArrayOf(objects[a].items \o objects[b].items))

\* The loop of the constructor: clonedMetadata[key] = metadata[key].slice()
RECURSIVE cloneMetadata(_, _, _, _)
cloneMetadata(objects, props, i, cloned) ==
    IF i > Len(props) THEN [objects |-> objects, cloned |-> cloned]
    ELSE cloneMetadata(sliceArray(objects, props[i][2]), props, i + 1,
                       Append(cloned, <<props[i][1], Len(objects) + 1>>))

\* new MatchData(term, field, metadata)
constructMatchData(objects, term, field, metadata) ==
    LET c == cloneMetadata(objects, objects[metadata].props, 1, << >>)
    IN  [objects |-> Append(c.objects, Obj(c.cloned)),
         metadata |-> << <<term, << <<field, Len(c.objects) + 1>> >> >> >>]

\* The loop of add over Object.keys(metadata)
RECURSIVE addKeys(_, _, _, _, _)
addKeys(objects, target, metadata, keys, i) ==
    IF i > Len(keys) THEN objects
    ELSE IF HasOwn(objects[target].props, keys[i])
    THEN LET o == concatArray(objects, Own(objects[target].props, keys[i]),
                              Own(objects[metadata].props, keys[i]))
         IN  addKeys([o EXCEPT ![target].props = SetOwn(@, keys[i], Len(o))],
                     target, metadata, keys, i + 1)
    ELSE addKeys([objects EXCEPT ![target].props =
                      SetOwn(@, keys[i], Own(objects[metadata].props, keys[i]))],
                 target, metadata, keys, i + 1)

\* MatchData.add(term, field, metadata) on the match data md
addMetadata(objects, md, term, field, metadata) ==
    IF ~HasOwn(md, term)
    THEN [objects |-> objects,
          metadata |-> SetOwn(md, term, << <<field, metadata>> >>)]
    ELSE IF ~HasOwn(Own(md, term), field)
    THEN [objects |-> objects,
          metadata |-> SetOwn(md, term, SetOwn(Own(md, term), field, metadata))]
    ELSE [objects |-> addKeys(objects, Own(Own(md, term), field), metadata,
                              OwnKeys(objects[metadata].props), 1),
          metadata |-> md]

\* The loop of combine over the keys of a field of the other match data
RECURSIVE combineKeys(_, _, _, _, _)
combineKeys(objects, target, other, keys, i) ==
    IF i > Len(keys) THEN objects
    ELSE IF ~HasOwn(objects[target].props, keys[i])
    THEN combineKeys([objects EXCEPT ![target].props =
                          SetOwn(@, keys[i], Own(objects[other].props, keys[i]))],
                     target, other, keys, i + 1)
    ELSE LET o == concatArray(objects, Own(objects[target].props, keys[i]),
                              Own(objects[other].props, keys[i]))
         IN  combineKeys([o EXCEPT ![target].props = SetOwn(@, keys[i], Len(o))],
                         target, other, keys, i + 1)

\* The loop of combine over the fields of a term of the other match data
RECURSIVE combineFieldObjects(_, _, _, _)
combineFieldObjects(st, term, otherFields, j) ==
    IF j > Len(otherFields) THEN st
    ELSE LET field == otherFields[j][1]
             fields == Own(st.metadata, term)
             made == IF HasOwn(fields, field) THEN st
                     ELSE [objects |-> Append(st.objects, Obj(<< >>)),
                           metadata |-> SetOwn(st.metadata, term,
                               SetOwn(fields, field, Len(st.objects) + 1))]
             target == Own(Own(made.metadata, term), field)
         IN  combineFieldObjects(
                 [made EXCEPT !.objects =
                     combineKeys(@, target, otherFields[j][2],
                                 OwnKeys(made.objects[otherFields[j][2]].props), 1)],
                 term, otherFields, j + 1)

\* MatchData.combine(otherMatchData) on the match data st.metadata
RECURSIVE combineObjects(_, _, _)
combineObjects(st, other, i) ==
    IF i > Len(other) THEN st
    ELSE combineObjects(
             combineFieldObjects(
                 IF HasOwn(st.metadata, other[i][1]) THEN st
                 ELSE [st EXCEPT !.metadata = SetOwn(@, other[i][1], << >>)],
                 other[i][1], other[i][2], 1),
             other, i + 1)

InitMatchData ==
    /\ nextId = 0
    /\ heap = None
    /\ sets = None
    /\ words = None
    /\ builder = None
    /\ index = None
    /\ loaded = None
    /\ result = None
    /\ protoAccessor = FALSE
    /\ vector = None
    /\ pipeline = None
    /\ lexer = None
    /\ parser = None
    /\ intersection = None
    /\ matches = [objects |-> CallerObjects, instances |-> << >>]
    /\ queryObjects = None

\* The store after a call, if the call stays within the bounds
Stored(objects) ==
    /\ Len(objects) <= MaxObjects
    /\ \A o \in 1..Len(objects) : Len(objects[o].items) <= MaxItems

Construct(term, field, metadata) ==
    /\ matches # None
    /\ Len(matches.instances) < MaxInstances
    /\ LET r == constructMatchData(matches.objects, term, field, metadata)
       IN  /\ Stored(r.objects)
           /\ matches' = [objects |-> r.objects,
                          instances |-> Append(matches.instances, r.metadata)]
    /\ UNCHANGED <<nextId, heap, sets, words, builder, index, loaded, result, protoAccessor, vector, pipeline, lexer, parser, intersection, queryObjects>>

AddMetadata(m, term, field, metadata) ==
    /\ matches # None
    /\ m \in 1..Len(matches.instances)
    /\ LET r == addMetadata(matches.objects, matches.instances[m], term, field,
                            metadata)
       IN  /\ Stored(r.objects)
           /\ matches' = [objects |-> r.objects,
                          instances |-> [matches.instances EXCEPT ![m] = r.metadata]]
    /\ UNCHANGED <<nextId, heap, sets, words, builder, index, loaded, result, protoAccessor, vector, pipeline, lexer, parser, intersection, queryObjects>>

Combine(m, n) ==
    /\ matches # None
    /\ m \in 1..Len(matches.instances)
    /\ n \in 1..Len(matches.instances)
    /\ m # n
    /\ LET r == combineObjects([objects |-> matches.objects,
                                metadata |-> matches.instances[m]],
                               matches.instances[n], 1)
       IN  /\ Stored(r.objects)
           /\ matches' = [objects |-> r.objects,
                          instances |-> [matches.instances EXCEPT ![m] = r.metadata]]
    /\ UNCHANGED <<nextId, heap, sets, words, builder, index, loaded, result, protoAccessor, vector, pipeline, lexer, parser, intersection, queryObjects>>

NextMatchData ==
    \/ \E term \in {TermA, TermB}, metadata \in CallerMetadata :
           Construct(term, FieldT, metadata)
    \/ \E m \in 1..MaxInstances, term \in {TermA, TermB},
          metadata \in CallerMetadata :
           AddMetadata(m, term, FieldT, metadata)
    \/ \E m, n \in 1..MaxInstances : Combine(m, n)

SpecMatchData == InitMatchData /\ [][NextMatchData]_vars

\* The objects a match data holds: the metadata of its fields and their
\* arrays
Held(md) ==
    LET maps == UNION {{md[t][2][f][2] : f \in 1..Len(md[t][2])} :
                           t \in 1..Len(md)}
    IN  maps \cup UNION {{matches.objects[o].props[k][2] :
                              k \in 1..Len(matches.objects[o].props)} : o \in maps}

\* No object of a caller has been written to
CallersUnmodified ==
    \A c \in 1..Len(CallerObjects) : matches.objects[c] = CallerObjects[c]

\* No match data holds an object of a caller
NothingShared ==
    \A m \in 1..Len(matches.instances) :
        Held(matches.instances[m]) \cap (1..Len(CallerObjects)) = {}

\* C24: after any sequence of MatchData constructions, add and combine calls,
\* no metadata object or array that a caller passed in has been modified,
\* and no match data holds an object that its caller (the inverted index,
\* in a query) holds too.
C24_OnlyCopies == CallersUnmodified /\ NothingShared

-----------------------------------------------------------------------------
(* Query.term over the options objects it is given                          *)

\* Clauses and options are objects in a store, by identity: query.clauses
\* lists the objects that clause() pushed, and the caller keeps the options
\* objects it made.

MaxOptions == 2

MaxTerms == 3

\* The options a caller makes: {}, {usePipeline: false}, {boost: 2}
OptionValues ==
    {<< >>, [usePipeline |-> FALSE], [boost |-> 2]}

TermValues == {TermA, TermB}

\* Query.clause(clause) on the object o of the store: the object is
\* completed in place and pushed
clauseObject(qo, o) ==
    [qo EXCEPT !.objects[o] = completed(Query(<<FieldT>>), @),
               !.clauses = Append(@, o)]

\* Query.term(term, options) with a single term; options = 0 is undefined
termObject(qo, term, options) ==
    IF options = 0
    THEN clauseObject([qo EXCEPT !.objects =
                          Append(@, SetProperty(<< >>, "term", term))],
                      Len(qo.objects) + 1)
    ELSE clauseObject([qo EXCEPT !.objects[options] =
                          SetProperty(@, "term", term)], options)

\* structuredClone(options)
structuredClone(qo, options) ==
    IF options = 0 THEN [qo |-> qo, clone |-> 0]
    ELSE [qo |-> [qo EXCEPT !.objects = Append(@, qo.objects[options])],
          clone |-> Len(qo.objects) + 1]

\* Query.term(term, options) with an array of terms, from its i-th term on
RECURSIVE termArray(_, _, _, _)
termArray(qo, term, options, i) ==
    IF i > Len(term) THEN qo
    ELSE LET c == structuredClone(qo, options)
         IN  termArray(termObject(c.qo, term[i], c.clone), term, options, i + 1)

InitTerm ==
    /\ nextId = 0
    /\ heap = None
    /\ sets = None
    /\ words = None
    /\ builder = None
    /\ index = None
    /\ loaded = None
    /\ result = None
    /\ protoAccessor = FALSE
    /\ vector = None
    /\ pipeline = None
    /\ lexer = None
    /\ parser = None
    /\ intersection = None
    /\ matches = None
    /\ queryObjects = [objects |-> << >>, clauses |-> << >>, options |-> << >>,
                       call |-> "new", term |-> << >>, given |-> << >>,
                       before |-> << >>, reused |-> FALSE, passed |-> {}]

\* The clauses of the query, as values
ClauseValues(qo) == [i \in 1..Len(qo.clauses) |-> qo.objects[qo.clauses[i]]]

\* What a term call was given, noted for the properties
Noted(qo, call, term, options) ==
    [qo EXCEPT !.call = call, !.term = term,
               !.given = IF options = 0 THEN << >>
                         ELSE queryObjects.objects[options],
               !.before = ClauseValues(queryObjects),
               !.reused = call = "term" /\ options \in queryObjects.passed,
               !.passed = IF call = "term" /\ options # 0
                          THEN @ \cup {options} ELSE @]

\* The caller makes an options object
NewOptions(value) ==
    /\ queryObjects # None
    /\ Len(queryObjects.options) < MaxOptions
    /\ queryObjects' =
           [queryObjects EXCEPT !.objects = Append(@, value),
                                !.options = Append(@, Len(queryObjects.objects) + 1),
                                !.call = "options"]
    /\ UNCHANGED <<nextId, heap, sets, words, builder, index, loaded, result, protoAccessor, vector, pipeline, lexer, parser, intersection, matches>>

\* query.term(term, options) with a single term
Term(term, options) ==
    /\ queryObjects # None
    /\ options = 0 \/ options \in Range(queryObjects.options)
    /\ Len(queryObjects.clauses) < MaxTerms
    /\ queryObjects' = Noted(termObject(queryObjects, term, options),
                             "term", <<term>>, options)
    /\ UNCHANGED <<nextId, heap, sets, words, builder, index, loaded, result, protoAccessor, vector, pipeline, lexer, parser, intersection, matches>>

\* query.term([a, b], options)
TermArray(term, options) ==
    /\ queryObjects # None
    /\ options = 0 \/ options \in Range(queryObjects.options)
    /\ Len(queryObjects.clauses) + Len(term) <= MaxTerms
    /\ queryObjects' = Noted(termArray(queryObjects, term, options, 1),
                             "array", term, options)
    /\ UNCHANGED <<nextId, heap, sets, words, builder, index, loaded, result, protoAccessor, vector, pipeline, lexer, parser, intersection, matches>>

NextTerm ==
    \/ \E value \in OptionValues : NewOptions(value)
    \/ \E term \in TermValues, options \in 0..(MaxOptions + MaxTerms) :
           Term(term, options)
    \/ \E term \in TermValues \X TermValues,
          options \in 0..(MaxOptions + MaxTerms) :
           TermArray(term, options)

SpecTerm == InitTerm /\ [][NextTerm]_vars

\* What the last term call did to the clauses: one more clause per term, in
\* order, with that term and the option values given, and the clauses before
\* as they were
AppendedOnly ==
    LET cs == ClauseValues(queryObjects)
        n == Len(queryObjects.before)
    IN  /\ Len(cs) = n + Len(queryObjects.term)
        /\ \A i \in 1..n : cs[i] = queryObjects.before[i]
        /\ \A k \in 1..Len(queryObjects.term) :
               /\ cs[n + k].term = queryObjects.term[k]
               /\ \A key \in DOMAIN queryObjects.given \ {"term"} :
                      cs[n + k][key] = queryObjects.given[key]

\* C29: a term call with a single term appends exactly one clause with that
\* term and leaves the clauses appended before unchanged, also when its
\* options object was passed to a term call before; a term call with an
\* array of terms appends one clause per term, in order, each with the
\* option values given.
C29_TermAppends ==
    queryObjects.call \in {"term", "array"} => AppendedOnly

\* The same for the term calls whose options object was not passed to a
\* single-term call before
D29_Fresh ==
    (queryObjects.call \in {"term", "array"} /\ ~queryObjects.reused) => AppendedOnly

=============================================================================
